---- MODULE Spec2Model ----
(***************************************************************************)
(* Model of container-source-policy: the task collector, the concurrent   *)
(* orchestrator (GeneratePolicy over an errgroup), the result aggregator  *)
(* with its mutex and the progress bars, the HTTP checksum resolver's     *)
(* strategy chain and its GET strategy with a progress sink, the git      *)
(* commit resolver and the image task with its preferred registries.      *)
(*                                                                         *)
(* A reference literal is a sequence of string tokens, so that the        *)
(* substring tests of the source (strings.Contains) can be computed.      *)
(***************************************************************************)
EXTENDS Integers, Sequences, FiniteSets, TLC

\* ------------------------------------------------------------------ bounds
MaxDockerfiles == 2   \* Dockerfiles passed in opts.Dockerfiles
MaxRefs == 2          \* references written in one Dockerfile
MaxTasks == 3         \* tasks of a run that is dispatched

\* ---------------------------------------------------------------- literals
ImgAlpine == <<"alpine", ":3.18">>
ImgSha256 == <<"alpine", "@sha256:", "aa">>
ImgSha512 == <<"alpine", "@sha512:", "bb">>
ImageNames == {ImgAlpine, ImgSha256, ImgSha512}

UrlFile == <<"https://h", "/", "f">>
UrlFileDot == <<"https://h", "/", "./", "f">>
HTTPURLs == {UrlFile, UrlFileDot}

GitRepo == <<"https://h", "/", "r.git">>
GitURLs == {GitRepo}

\* strings.Contains(s, tok) on a tokenised literal
Contains(s, tok) == \E i \in DOMAIN s : s[i] = tok

IsDigestedNever(lit) == FALSE

\* the reference parses to a reference.Digested (name@algorithm:hex)
IsDigested(lit) == Contains(lit, "@sha256:") \/ Contains(lit, "@sha512:")

\* all sequences over S of length at most n
RECURSIVE SeqsUpTo(_, _)
SeqsUpTo(S, n) ==
    IF n = 0 THEN {<<>>}
    ELSE LET shorter == SeqsUpTo(S, n - 1)
         IN  shorter \cup {Append(s, x) : s \in {t \in shorter : Len(t) = n - 1}, x \in S}

\* the set of elements of a sequence
Range(s) == {s[i] : i \in DOMAIN s}

\* a Dockerfile, as the image names and ADD sources written in it
Dockerfiles ==
    {d \in [images : SeqsUpTo(ImageNames, MaxRefs),
            http   : SeqsUpTo(HTTPURLs, MaxRefs),
            git    : SeqsUpTo(GitURLs, MaxRefs)] :
        Len(d.images) + Len(d.http) + Len(d.git) <= MaxRefs}

VARIABLES
    pc,           \* position of GeneratePolicy
    preferDHI,    \* opts.PreferDHI
    nFiles,       \* Dockerfiles collected so far
    written,      \* history: set of <<kind, literal>> written in the Dockerfiles read
    dupLits,      \* history: those of them met again after their first occurrence
    imageTasks, httpTasks, gitTasks,   \* taskCollector lists
    seenImages, seenHTTP, seenGit,     \* taskCollector dedup sets
    orderIndex,                        \* taskCollector.orderIndex
    tstate,       \* task index -> [pc, outcome] of its goroutine
    called,       \* indices of the tasks whose resolver was called
    sent,         \* indices of the tasks that sent a network request
    cancelled,    \* the errgroup's shared context is cancelled
    gErr,         \* the errgroup's recorded error
    errLog,       \* errors returned by tasks, in the order of return
    arrival,      \* indices of the results, in the order they were added
    pinResults, httpResults, gitResults,   \* resultCollector buckets
    ret,          \* what GeneratePolicy returned: [policy, err]
    rawURL,       \* the URL GetChecksumWithHeaders was called with
    hpc,          \* position of GetChecksumWithHeaders
    resp,         \* the response the last strategy received
    out,          \* what the last strategy returned: [checksum, err]
    headers,      \* ChecksumResult.Headers of what the last strategy returned
    trace,        \* history: [strategy, sent, err] of the strategies tried so far
    hret,         \* what GetChecksumWithHeaders returned: [nil, Checksum, err]
    gpc,          \* position of GetCommitChecksum
    lines,        \* the lines of the answer of git ls-remote, as their fields
    lineIdx,      \* the line the loop of GetCommitChecksum is at
    commitSHA,    \* the local commitSHA of GetCommitChecksum
    gret,         \* what GetCommitChecksum returned: [sha, err]
    ipc,          \* position of the task function of processImage
    taskRef,      \* task.ref
    preferECRPublic,   \* opts.PreferECRPublic
    ibar,         \* the task's spinner: none, active, aborted or completed
    tried,        \* history: [ref, res] of the calls of GetDigest
    pinnedRef,    \* the local pinnedRef of processImage
    digestStr,    \* the local digestStr of processImage
    iret,         \* what the task returned and added: [returned, err, added, pinned, digest]
    mu,           \* resultCollector.mu: the index of the task holding it, or -1
    local,        \* task index -> the bucket as the task read it for its append
    bars,         \* task index -> its progress bar: active, aborted or completed
    kpc,          \* position of computeChecksumWithHeaders
    sink,         \* what the writer of c.progressFactory does, "none" without a factory
    kresp,        \* the response to the GET request
    remaining,    \* the bytes of the body io.Copy has not read yet
    hashed,       \* the bytes written to the hash
    nCopied,      \* the bytes io.Copy counts as written
    reported,     \* history: the byte count of the sink after each of its writes
    kret          \* what computeChecksumWithHeaders returned: [checksum, headers, err]

historyVars == <<written, dupLits>>
collectorVars == <<nFiles, imageTasks, httpTasks, gitTasks,
                   seenImages, seenHTTP, seenGit, orderIndex>>
groupVars == <<tstate, called, sent, cancelled, gErr, errLog, arrival>>
resultVars == <<pinResults, httpResults, gitResults>>
httpVars == <<rawURL, hpc, resp, out, headers, trace, hret>>
pipelineVars == <<pc, preferDHI, historyVars, collectorVars, groupVars, resultVars, ret>>
gitVars == <<gpc, lines, lineIdx, commitSHA, gret>>
\* the variables of the components specified apart from the pipeline and
\* from the HTTP resolver
imgVars == <<ipc, taskRef, preferECRPublic, ibar, tried, pinnedRef, digestStr, iret>>
runVars == <<mu, local, bars>>
sinkVars == <<kpc, sink, kresp, remaining, hashed, nCopied, reported, kret>>
extVars == <<gitVars, imgVars, runVars, sinkVars>>
vars == <<pipelineVars, httpVars, extVars>>

\* ------------------------------------------------------------ the parser
\* parseImageReference: nil for an image already written as name@sha256:...
parseImageReference(imageName) ==
    IF Contains(imageName, "@sha256:") THEN <<>> ELSE <<imageName>>

\* ParseAll: the references of one Dockerfile, per kind, in Dockerfile order
RECURSIVE ParseImages(_)
ParseImages(names) ==
    IF names = <<>> THEN <<>>
    ELSE parseImageReference(Head(names)) \o ParseImages(Tail(names))

ParseAll(d) == [Images |-> ParseImages(d.images), HTTPSources |-> d.http, GitSources |-> d.git]

\* --------------------------------------------------------- taskCollector
RECURSIVE CollectLoopNoDedup(_, _, _)
CollectLoopNoDedup(c, refs, skipDigested) ==
    IF refs = <<>> THEN c
    ELSE LET lit == Head(refs)
             next ==
                 IF skipDigested /\ IsDigested(lit)
                 THEN [c EXCEPT !.seen = @ \cup {lit}]
                 ELSE [tasks |-> Append(c.tasks, [index |-> c.orderIndex, lit |-> lit]),
                       seen |-> c.seen \cup {lit},
                       orderIndex |-> c.orderIndex + 1]
         IN  CollectLoopNoDedup(next, Tail(refs), skipDigested)

RECURSIVE CollectLoopDupConsumes(_, _, _)
CollectLoopDupConsumes(c, refs, skipDigested) ==
    IF refs = <<>> THEN c
    ELSE LET lit == Head(refs)
             next ==
                 IF lit \in c.seen THEN [c EXCEPT !.orderIndex = @ + 1]
                 ELSE IF skipDigested /\ IsDigested(lit)
                      THEN [c EXCEPT !.seen = @ \cup {lit}]
                      ELSE [tasks |-> Append(c.tasks, [index |-> c.orderIndex, lit |-> lit]),
                            seen |-> c.seen \cup {lit},
                            orderIndex |-> c.orderIndex + 1]
         IN  CollectLoopDupConsumes(next, Tail(refs), skipDigested)

\* one dedup loop of collect over the references refs: c is
\* [tasks, seen, orderIndex]; the image loop (skipDigested) drops a digested
\* reference after marking its literal as seen
RECURSIVE CollectLoop(_, _, _)
CollectLoop(c, refs, skipDigested) ==
    IF refs = <<>> THEN c
    ELSE LET lit == Head(refs)
             next ==
                 IF lit \in c.seen THEN c
                 ELSE IF skipDigested /\ IsDigested(lit)
                      THEN [c EXCEPT !.seen = @ \cup {lit}]
                      ELSE [tasks |-> Append(c.tasks, [index |-> c.orderIndex, lit |-> lit]),
                            seen |-> c.seen \cup {lit},
                            orderIndex |-> c.orderIndex + 1]
         IN  CollectLoop(next, Tail(refs), skipDigested)

isEmpty == imageTasks = <<>> /\ httpTasks = <<>> /\ gitTasks = <<>>

\* --------------------------------------------------------- values returned
NoErr == [task |-> -1, cause |-> "nil"]
NilPolicy == [nil |-> TRUE, Rules |-> <<>>]
NewPolicy == [nil |-> FALSE, Rules |-> <<>>]

\* the identifier a resolver returns for a literal
Pinned(kind, lit) ==
    CASE kind = "image" -> lit \o <<"@sha256:", "d">>
      [] kind = "http"  -> <<"sha256:", "c">> \o lit
      [] kind = "git"   -> <<"commit:">> \o lit

AddPinRule(pol, original, pinned) ==
    [pol EXCEPT !.Rules = Append(@, [scheme |-> "docker-image", identifier |-> original, pinned |-> pinned])]
AddHTTPChecksumRuleWithHeaders(pol, url, checksum) ==
    [pol EXCEPT !.Rules = Append(@, [scheme |-> "http", identifier |-> url, pinned |-> checksum])]
AddGitChecksumRule(pol, url, checksum) ==
    [pol EXCEPT !.Rules = Append(@, [scheme |-> "git", identifier |-> url, pinned |-> checksum])]

\* ------------------------------------------------------- resultCollector
\* insertion of r into a sequence sorted by index
RECURSIVE InsertByIndex(_, _)
InsertByIndex(sorted, r) ==
    IF sorted = <<>> THEN <<r>>
    ELSE IF r.index < Head(sorted).index THEN <<r>> \o sorted
         ELSE <<Head(sorted)>> \o InsertByIndex(Tail(sorted), r)

SortFuncNone(results) == results

\* slices.SortFunc(results, cmp.Compare(a.index, b.index))
RECURSIVE SortFunc(_)
SortFunc(results) ==
    IF results = <<>> THEN <<>>
    ELSE InsertByIndex(SortFunc(Tail(results)), Head(results))

RECURSIVE AddRules(_, _, _)
AddRules(pol, results, kind) ==
    IF results = <<>> THEN pol
    ELSE LET r == Head(results)
             p == CASE kind = "image" -> AddPinRule(pol, r.lit, r.pinned)
                    [] kind = "http"  -> AddHTTPChecksumRuleWithHeaders(pol, r.lit, r.pinned)
                    [] kind = "git"   -> AddGitChecksumRule(pol, r.lit, r.pinned)
         IN  AddRules(p, Tail(results), kind)

\* buildPolicy: sort each bucket, then image rules, HTTP rules, git rules
buildPolicy(pins, https, gits) ==
    AddRules(AddRules(AddRules(NewPolicy, SortFunc(pins), "image"),
                      SortFunc(https), "http"),
             SortFunc(gits), "git")

\* ------------------------------------------------------------- the tasks
TaskIndices == 0 .. (orderIndex - 1)

TaskAt(i) ==
    IF \E k \in DOMAIN imageTasks : imageTasks[k].index = i
    THEN [kind |-> "image", lit |-> (CHOOSE t \in Range(imageTasks) : t.index = i).lit]
    ELSE IF \E k \in DOMAIN httpTasks : httpTasks[k].index = i
    THEN [kind |-> "http", lit |-> (CHOOSE t \in Range(httpTasks) : t.index = i).lit]
    ELSE [kind |-> "git", lit |-> (CHOOSE t \in Range(gitTasks) : t.index = i).lit]

\* what a resolver call that was not aborted can end in
ResolverOutcomes(kind) ==
    IF kind = "http" THEN {"ok", "auth", "volatile", "fatal"} ELSE {"ok", "fatal"}

\* the task function after its resolver returned: does it add a result,
\* does it return a non-nil error to the errgroup
processImage(outcome) == [add |-> outcome = "ok", err |-> outcome # "ok"]

processHTTPStrict(outcome) == [add |-> outcome = "ok", err |-> outcome # "ok"]

processHTTP(outcome) ==
    IF outcome # "ok"
    THEN IF outcome = "auth" THEN [add |-> FALSE, err |-> FALSE]
         ELSE IF outcome = "volatile" THEN [add |-> FALSE, err |-> FALSE]
         ELSE [add |-> FALSE, err |-> TRUE]
    ELSE [add |-> TRUE, err |-> FALSE]

processGit(outcome) == [add |-> outcome = "ok", err |-> outcome # "ok"]

process(kind, outcome) ==
    CASE kind = "image" -> processImage(outcome)
      [] kind = "http"  -> processHTTP(outcome)
      [] kind = "git"   -> processGit(outcome)

RequestSentAlways(ctxDone) == TRUE

\* httpClient.Do / git.Run / GetDigest with the task's context: a request
\* whose context is already done is not sent
RequestSent(ctxDone) == ~ctxDone

ErrLast(cur, err) == err

\* errgroup: errOnce keeps the first non-nil error a task returned
ErrOnce(cur, err) == IF cur = NoErr THEN err ELSE cur

Terminal == {"ok", "auth", "volatile", "fatal", "canceled"}

AllReturnedOrFailed ==
    gErr # NoErr \/ \A i \in TaskIndices : tstate[i] \in Terminal

\* g.Wait(): wg.Wait() over every goroutine g.Go launched
AllReturned == \A i \in TaskIndices : tstate[i] \in Terminal

\* the references written in Dockerfile d, and those written twice in it
RefsOf(d) ==
    {<<"image", l>> : l \in Range(d.images)} \cup {<<"http", l>> : l \in Range(d.http)}
        \cup {<<"git", l>> : l \in Range(d.git)}
Repeated(s) == {s[i] : i \in {j \in DOMAIN s : \E k \in DOMAIN s : k # j /\ s[k] = s[j]}}
RepeatedIn(d) ==
    {<<"image", l>> : l \in Repeated(d.images)} \cup {<<"http", l>> : l \in Repeated(d.http)}
        \cup {<<"git", l>> : l \in Repeated(d.git)}

\* ------------------------------------------------------------------ Init
\* the resolver's values returned and its state before any call
NoResp == [status |-> -1]
NoOut == [checksum |-> <<>>, err |-> "none"]
NoRet == [nil |-> TRUE, Checksum |-> <<>>, err |-> "none"]
\* a map[string]string: nil, or the function from its keys to their values
NilMap == [nil |-> TRUE, map |-> <<>>]

ResolverIdle ==
    /\ rawURL = [valid |-> FALSE, Host |-> "", Path |-> <<>>]
    /\ hpc = "idle"
    /\ resp = NoResp
    /\ out = NoOut
    /\ headers = NilMap
    /\ trace = <<>>
    /\ hret = NoRet

PipelineInit ==
    /\ pc = "Collecting"
    /\ nFiles = 0
    /\ written = {} /\ dupLits = {}
    /\ imageTasks = <<>> /\ httpTasks = <<>> /\ gitTasks = <<>>
    /\ seenImages = {} /\ seenHTTP = {} /\ seenGit = {}
    /\ orderIndex = 0
    /\ tstate = <<>>
    /\ called = {} /\ sent = {}
    /\ cancelled = FALSE
    /\ gErr = NoErr
    /\ errLog = <<>> /\ arrival = <<>>
    /\ pinResults = <<>> /\ httpResults = <<>> /\ gitResults = <<>>
    /\ ret = [policy |-> NilPolicy, err |-> NoErr]

GitIdle ==
    /\ gpc = "idle"
    /\ lines = <<>>
    /\ lineIdx = 0
    /\ commitSHA = ""
    /\ gret = [sha |-> "", err |-> "none"]

ImgIdle ==
    /\ ipc = "idle"
    /\ taskRef = [domain |-> "", path |-> <<>>, tag |-> ""]
    /\ preferECRPublic = FALSE
    /\ ibar = "none"
    /\ tried = <<>>
    /\ pinnedRef = [domain |-> "", path |-> <<>>, tag |-> ""]
    /\ digestStr = ""
    /\ iret = [returned |-> FALSE, err |-> "nil", added |-> FALSE,
               pinned |-> [domain |-> "", path |-> <<>>, tag |-> ""], digest |-> ""]

RunIdle ==
    /\ mu = -1
    /\ local = <<>>
    /\ bars = <<>>

SinkIdle ==
    /\ kpc = "idle"
    /\ sink = "none"
    /\ kresp = NoResp
    /\ remaining = <<>>
    /\ hashed = <<>>
    /\ nCopied = 0
    /\ reported = <<>>
    /\ kret = [checksum |-> <<>>, headers |-> NilMap, err |-> "none"]

ExtIdle == GitIdle /\ ImgIdle /\ RunIdle /\ SinkIdle

Init ==
    /\ preferDHI \in BOOLEAN
    /\ PipelineInit
    /\ ResolverIdle
    /\ ExtIdle

\* --------------------------------------------------- phase 1: collection
\* collector.collect(ctx, dockerfilePath) for the next Dockerfile d
Collect(d) ==
    /\ pc = "Collecting"
    /\ nFiles < MaxDockerfiles
    /\ LET p  == ParseAll(d)
           ci == CollectLoop([tasks |-> imageTasks, seen |-> seenImages, orderIndex |-> orderIndex],
                             p.Images, TRUE)
           ch == CollectLoop([tasks |-> httpTasks, seen |-> seenHTTP, orderIndex |-> ci.orderIndex],
                             p.HTTPSources, FALSE)
           cg == CollectLoop([tasks |-> gitTasks, seen |-> seenGit, orderIndex |-> ch.orderIndex],
                             p.GitSources, FALSE)
       IN  /\ imageTasks' = ci.tasks /\ seenImages' = ci.seen
           /\ httpTasks' = ch.tasks /\ seenHTTP' = ch.seen
           /\ gitTasks' = cg.tasks /\ seenGit' = cg.seen
           /\ orderIndex' = cg.orderIndex
    /\ nFiles' = nFiles + 1
    /\ UNCHANGED <<pc, preferDHI, httpVars, extVars, groupVars, resultVars, ret>>

\* collect in a run of GeneratePolicy
CollectFile(d) == Collect(d) /\ UNCHANGED historyVars

\* collect, with the history of what was written recorded
CollectTracked(d) ==
    /\ Collect(d)
    /\ written' = written \cup RefsOf(d)
    /\ dupLits' = dupLits \cup (RefsOf(d) \cap written) \cup RepeatedIn(d)

\* the next Dockerfile cannot be opened or parsed: GeneratePolicy returns
CollectFail ==
    /\ pc = "Collecting"
    /\ nFiles < MaxDockerfiles
    /\ pc' = "Aborted"
    /\ ret' = [policy |-> NilPolicy, err |-> [task |-> -1, cause |-> "parse"]]
    /\ UNCHANGED <<preferDHI, httpVars, extVars, historyVars, collectorVars, groupVars, resultVars>>

\* all Dockerfiles collected and no task: an empty policy is returned
ReturnEmpty ==
    /\ pc = "Collecting"
    /\ isEmpty
    /\ pc' = "Completed"
    /\ ret' = [policy |-> NewPolicy, err |-> NoErr]
    /\ UNCHANGED <<preferDHI, httpVars, extVars, historyVars, collectorVars, groupVars, resultVars>>

\* phase 1.5: with PreferDHI and an eligible image the registry login is
\* verified first; its failure is returned
CheckAuthFail ==
    /\ pc = "Collecting"
    /\ ~isEmpty
    /\ preferDHI
    /\ imageTasks # <<>>
    /\ pc' = "Aborted"
    /\ ret' = [policy |-> NilPolicy, err |-> [task |-> -1, cause |-> "dhi-auth"]]
    /\ UNCHANGED <<preferDHI, httpVars, extVars, historyVars, collectorVars, groupVars, resultVars>>

\* ----------------------------------------------------- phase 2: dispatch
\* errgroup.WithContext and one g.Go per task: every goroutine is launched
Dispatch ==
    /\ pc = "Collecting"
    /\ ~isEmpty
    /\ orderIndex <= MaxTasks
    /\ pc' = "Dispatched"
    /\ tstate' = [i \in TaskIndices |-> "started"]
    /\ UNCHANGED <<preferDHI, httpVars, extVars, historyVars, collectorVars, called, sent, cancelled, gErr, errLog, arrival, resultVars, ret>>

\* the goroutine of a task has returned err (nil: isErr = FALSE) to the group
GroupDone(i, outcome, isErr) ==
    /\ tstate' = [tstate EXCEPT ![i] = outcome]
    /\ IF isErr
       THEN /\ errLog' = Append(errLog, [task |-> i, cause |-> outcome])
            /\ gErr' = ErrOnce(gErr, [task |-> i, cause |-> outcome])
            /\ cancelled' = TRUE
       ELSE UNCHANGED <<errLog, gErr, cancelled>>

\* ---- the tasks, the aggregator's mutex and the progress bars
\* The Dockerfiles of the runs whose tasks are followed step by step
DfHTTP == [images |-> <<>>, http |-> <<UrlFile, UrlFileDot>>, git |-> <<>>]
DfImage == [images |-> <<ImgAlpine>>, http |-> <<>>, git |-> <<>>]
DfGit == [images |-> <<>>, http |-> <<>>, git |-> <<GitRepo>>]
DfDigest == [images |-> <<ImgSha512, ImgAlpine>>, http |-> <<>>, git |-> <<>>]
DfMixed == [images |-> <<ImgAlpine>>, http |-> <<UrlFile>>, git |-> <<>>]
DfPinned == [images |-> <<ImgSha256>>, http |-> <<>>, git |-> <<>>]
RunDockerfiles == Dockerfiles \cap {DfHTTP, DfImage, DfGit}
PipelineDockerfiles == RunDockerfiles \cup (Dockerfiles \cap {DfDigest, DfMixed, DfPinned})

MutexFreeAlways(holder) == TRUE

\* r.mu.Lock() returns once no task holds the mutex
MutexFree(holder) == holder = -1

Bucket(kind) ==
    CASE kind = "image" -> pinResults
      [] kind = "http"  -> httpResults
      [] kind = "git"   -> gitResults

BarOnExitLeak(kind, outcome) ==
    IF kind = "http" /\ outcome \in {"auth", "volatile"} THEN "active"
    ELSE IF outcome = "ok" THEN "completed" ELSE "aborted"

\* the bar of a task when its function returns: bar.Abort(true) on every
\* error of the resolver; bar.SetTotal(bar.Current(), true) of processHTTP
\* and the deferred bar.SetTotal(0, true) of processImage and processGit
\* otherwise (an aborted bar ignores SetTotal)
BarOnExit(kind, outcome) ==
    CASE kind = "http"  -> IF outcome # "ok" THEN "aborted" ELSE "completed"
      [] kind = "image" -> IF outcome # "ok" THEN "aborted" ELSE "completed"
      [] kind = "git"   -> IF outcome # "ok" THEN "aborted" ELSE "completed"

\* progress.Wait() returns once every bar added is completed or aborted
ProgressDone == \A i \in DOMAIN bars : bars[i] # "active"

notRunVars == <<httpVars, gitVars, imgVars, sinkVars>>

\* the task function starts: it adds its bar and calls its resolver, which
\* issues its first request; when the request is not sent the resolver
\* returns the context's error and the task function handles it
RunBegin(i) ==
    /\ tstate[i] = "started"
    /\ called' = called \cup {i}
    /\ IF RequestSent(cancelled)
       THEN /\ sent' = sent \cup {i}
            /\ tstate' = [tstate EXCEPT ![i] = "inflight"]
            /\ bars' = (i :> "active") @@ bars
            /\ UNCHANGED <<errLog, gErr, cancelled>>
       ELSE /\ GroupDone(i, "canceled", process(TaskAt(i).kind, "canceled").err)
            /\ bars' = (i :> BarOnExit(TaskAt(i).kind, "canceled")) @@ bars
            /\ UNCHANGED sent
    /\ UNCHANGED <<mu, local>>
    /\ UNCHANGED <<pc, preferDHI, notRunVars, historyVars, collectorVars, arrival, resultVars, ret>>

\* the resolver of task i returns with outcome o: on an error the task
\* function aborts its bar and returns; otherwise it goes on to add its
\* result (processHTTP completes its bar first)
RunResolve(i, o) ==
    /\ tstate[i] = "inflight"
    /\ o \in ResolverOutcomes(TaskAt(i).kind) \cup (IF cancelled THEN {"canceled"} ELSE {})
    /\ LET t == TaskAt(i)
           p == process(t.kind, o)
       IN  IF p.add
           THEN /\ tstate' = [tstate EXCEPT ![i] = "adding"]
                /\ bars' = IF t.kind = "http" THEN (i :> BarOnExit(t.kind, o)) @@ bars ELSE bars
                /\ UNCHANGED <<errLog, gErr, cancelled>>
           ELSE /\ GroupDone(i, o, p.err)
                /\ bars' = (i :> BarOnExit(t.kind, o)) @@ bars
    /\ UNCHANGED <<mu, local>>
    /\ UNCHANGED <<pc, preferDHI, notRunVars, historyVars, collectorVars, called, sent, arrival, resultVars, ret>>

\* addPin, addHTTP, addGit: r.mu.Lock() and the read of the bucket by append
RunLock(i) ==
    /\ tstate[i] = "adding"
    /\ MutexFree(mu)
    /\ mu' = i
    /\ local' = (i :> Bucket(TaskAt(i).kind)) @@ local
    /\ tstate' = [tstate EXCEPT ![i] = "locked"]
    /\ UNCHANGED bars
    /\ UNCHANGED <<pc, preferDHI, notRunVars, historyVars, collectorVars, called, sent, cancelled, gErr, errLog, arrival, resultVars, ret>>

\* the write of the bucket by append and the deferred r.mu.Unlock(): the
\* add has returned, the task function has not
RunAdd(i) ==
    /\ tstate[i] = "locked"
    /\ LET t == TaskAt(i)
           r == [index |-> i, lit |-> t.lit, pinned |-> Pinned(t.kind, t.lit)]
       IN  /\ pinResults' = IF t.kind = "image" THEN Append(local[i], r) ELSE pinResults
           /\ httpResults' = IF t.kind = "http" THEN Append(local[i], r) ELSE httpResults
           /\ gitResults' = IF t.kind = "git" THEN Append(local[i], r) ELSE gitResults
    /\ arrival' = Append(arrival, i)
    /\ mu' = -1
    /\ local' = [j \in DOMAIN local \ {i} |-> local[j]]
    /\ tstate' = [tstate EXCEPT ![i] = "added"]
    /\ UNCHANGED <<pc, preferDHI, notRunVars, historyVars, collectorVars, called, sent,
                   cancelled, gErr, errLog, bars, ret>>

\* the task function returns nil to the group, with the deferred
\* bar.SetTotal(0, true) of processImage and processGit
RunDone(i) ==
    /\ tstate[i] = "added"
    /\ bars' = (i :> BarOnExit(TaskAt(i).kind, "ok")) @@ bars
    /\ GroupDone(i, "ok", FALSE)
    /\ UNCHANGED <<mu, local>>
    /\ UNCHANGED <<pc, preferDHI, notRunVars, historyVars, collectorVars, called, sent,
                   arrival, resultVars, ret>>

\* g.Wait() returns: every goroutine of the group has returned, and Wait
\* cancels the group's context
RunWait ==
    /\ pc = "Dispatched"
    /\ AllReturned
    /\ pc' = "Waited"
    /\ cancelled' = TRUE
    /\ UNCHANGED <<tstate, called, sent, gErr, errLog, arrival>>
    /\ UNCHANGED <<preferDHI, notRunVars, runVars, historyVars, collectorVars, resultVars, ret>>

\* progress.Wait() returns, then GeneratePolicy returns the group's error or
\* results.buildPolicy()
RunReturn ==
    /\ pc = "Waited"
    /\ ProgressDone
    /\ IF gErr # NoErr
       THEN /\ pc' = "Aborted"
            /\ ret' = [policy |-> NilPolicy, err |-> gErr]
            /\ UNCHANGED resultVars
       ELSE /\ pc' = "Completed"
            /\ pinResults' = SortFunc(pinResults)
            /\ httpResults' = SortFunc(httpResults)
            /\ gitResults' = SortFunc(gitResults)
            /\ ret' = [policy |-> buildPolicy(pinResults, httpResults, gitResults), err |-> NoErr]
    /\ UNCHANGED <<preferDHI, notRunVars, runVars, historyVars, collectorVars, groupVars>>

\* the steps of GeneratePolicy itself, and those of the goroutine of task i,
\* which runs from g.Go on whatever GeneratePolicy is doing
\* GeneratePolicy with its tasks, over the Dockerfiles PipelineDockerfiles
\* (SpecCollect reads every Dockerfile of Dockerfiles)
Next ==
    \/ \E d \in PipelineDockerfiles : CollectFile(d)
    \/ CollectFail
    \/ ReturnEmpty
    \/ CheckAuthFail
    \/ Dispatch
    \/ \E i \in DOMAIN tstate : RunBegin(i)
    \/ \E i \in DOMAIN tstate, o \in Terminal : RunResolve(i, o)
    \/ \E i \in DOMAIN tstate : RunLock(i)
    \/ \E i \in DOMAIN tstate : RunAdd(i)
    \/ \E i \in DOMAIN tstate : RunDone(i)
    \/ RunWait
    \/ RunReturn

Spec == Init /\ [][Next]_vars

\* the same over the Dockerfiles RunDockerfiles
RunMain ==
    \/ \E d \in RunDockerfiles : CollectFile(d)
    \/ CollectFail
    \/ ReturnEmpty
    \/ CheckAuthFail
    \/ Dispatch
    \/ RunWait
    \/ RunReturn

RunTask(i) ==
    /\ i \in DOMAIN tstate
    /\ \/ RunBegin(i)
       \/ \E o \in Terminal : RunResolve(i, o)
       \/ RunLock(i)
       \/ RunAdd(i)
       \/ RunDone(i)

NextRun ==
    \/ \E d \in RunDockerfiles : CollectFile(d)
    \/ CollectFail
    \/ ReturnEmpty
    \/ CheckAuthFail
    \/ Dispatch
    \/ \E i \in DOMAIN tstate : RunBegin(i)
    \/ \E i \in DOMAIN tstate, o \in Terminal : RunResolve(i, o)
    \/ \E i \in DOMAIN tstate : RunLock(i)
    \/ \E i \in DOMAIN tstate : RunAdd(i)
    \/ \E i \in DOMAIN tstate : RunDone(i)
    \/ RunWait
    \/ RunReturn

SpecRun == Init /\ [][NextRun]_vars

\* every goroutine that can take a step is scheduled, a resolver call that
\* was made returns, and GeneratePolicy goes on
SpecRunLive ==
    /\ SpecRun
    /\ WF_vars(RunMain)
    /\ \A i \in 0 .. (MaxTasks - 1) : WF_vars(RunTask(i))

\* the task collector alone, over every sequence of Dockerfiles
NextCollect == \E d \in Dockerfiles : CollectTracked(d)

SpecCollect == Init /\ [][NextCollect]_vars

\* ============================================ the HTTP checksum resolver
\* A URL is [valid, Host, Path]: Path is the sequence of its segments.
UrlPlain == [valid |-> TRUE, Host |-> "h", Path |-> <<"f">>]
UrlRelease ==
    [valid |-> TRUE, Host |-> "github.com",
     Path |-> <<"o", "r", "releases", "download", "v1", "a%2Bb.tgz">>]
UrlReleaseShort ==
    [valid |-> TRUE, Host |-> "github.com", Path |-> <<"releases", "download", "x">>]
UrlGitHubArchive ==
    [valid |-> TRUE, Host |-> "github.com", Path |-> <<"o", "r", "archive", "v1.tgz">>]
UrlMirror ==
    [valid |-> TRUE, Host |-> "h",
     Path |-> <<"o", "r", "releases", "download", "v1", "a%2Bb.tgz">>]
UrlInvalid == [valid |-> FALSE, Host |-> "", Path |-> <<>>]
RawURLs == {UrlPlain, UrlRelease, UrlReleaseShort, UrlGitHubArchive, UrlMirror, UrlInvalid}

\* strings.Contains(parsedURL.Path, "/releases/download/")
IsReleasePath(path) ==
    \E i \in DOMAIN path :
        /\ path[i] = "releases"
        /\ i + 1 < Len(path)
        /\ path[i + 1] = "download"

\* url.PathUnescape of one path segment
PathUnescape(seg) ==
    CASE seg = "a%2Bb.tgz" -> "a+b.tgz"
      [] OTHER -> seg

\* ------------------------------------------------------------ the errors
AuthError(status) == IF status = 401 THEN "AuthError 401" ELSE "AuthError 403"
VolatileContentErrors ==
    {"Pragma: no-cache", "Cache-Control: no-store", "Cache-Control: no-cache",
     "Cache-Control: max-age=0 (immediately stale)",
     "Expires header indicates already expired content"}
IsAuthError(err) == err \in {"AuthError 401", "AuthError 403"}

\* fmt.Errorf("... request failed: %s", resp.Status)
RequestFailed(what, status) ==
    CASE what = "API" /\ status = 404 -> "GitHub API request failed: 404 Not Found"
      [] what = "API" /\ status # 404 -> "GitHub API request failed: 500 Internal Server Error"
      [] what = "HEAD" /\ status = 404 -> "HEAD request failed: 404 Not Found"
      [] what = "HEAD" /\ status # 404 -> "HEAD request failed: 500 Internal Server Error"
      [] what = "GET" /\ status = 404 -> "GET request failed: 404 Not Found"
      [] OTHER -> "GET request failed: 500 Internal Server Error"
IsVolatileContentError(err) == err \in VolatileContentErrors

\* --------------------------------------------------------- the responses
\* status 0: httpClient.Do returned an error and no response
Statuses == {0, 200, 401, 403, 404, 500}

PragmaValues == {<<>>, <<"no-cache">>, <<"No-Cache">>}
CacheControlValues ==
    {<<>>, <<"no-store">>, <<"no-cache">>, <<"private">>, <<"max-age=0">>,
     <<"max-age=300">>, <<"s-maxage=0">>, <<"max-age=0", "s-maxage=60">>,
     <<"max-age=abc">>, <<"max-age=86400", "s-maxage=0">>, <<"private", "max-age=3600">>,
     <<"no-store", "max-age=abc">>}
ExpiresPast == "Thu, 01 Jan 1970 00:00:00 GMT"
ExpiresFuture == "Fri, 01 Jan 2100 00:00:00 GMT"
ExpiresValues == {"", ExpiresPast, ExpiresFuture, "tomorrow"}

Hex64 == "9f86d081884c7d659a2feaa0c55ad015a3bf4f1b2b0b822cd15d6c15b0f00a08"
Hex64Upper == "9F86D081884C7D659A2FEAA0C55AD015A3BF4F1B2B0B822CD15D6C15B0F00A08"
NonHex64 == "zzzzzzzzzzzzzzzzzzzzzzzzzzzzzzzzzzzzzzzzzzzzzzzzzzzzzzzzzzzzzzzz"
ETagValues ==
    {<<>>, <<"\"", Hex64, "\"">>, <<"W/", "\"", Hex64, "\"">>, <<"\"", "abc123", "\"">>,
     <<Hex64Upper>>, <<"\"", NonHex64, "\"">>}
ServerValues == {"nginx", "AmazonS3"}
AmzValues == {"", "n4bQgYhMfWWaL+qgxVrQFaO/TxsrC4Is0V1sFbDwCgg=", "!!"}
Sha1Values == {"", "qUqP5cyxm6YcTAhz05Hph5gvu9M="}
\* the value of one Vary field line: the field names between its commas, with
\* the blank that follows a comma (<<>>: the empty value)
VaryLineValues ==
    {<<"*">>, <<"User-Agent">>, <<"user-agent">>, <<"Accept-Encoding">>,
     <<"User-Agent", " Accept-Encoding">>, <<"X-Amz-Checksum-Mode", " User-Agent">>,
     <<"*", " User-Agent">>, <<"User-Agent", " ">>}
\* the Vary field lines of a response, in the order received, as http.Header
\* keeps them under the key Vary (<<>>: no Vary header): one line, or several
VaryValues ==
    {<<>>} \cup {<<l>> : l \in VaryLineValues} \cup
    {<<<<"Accept-Encoding">>, <<"User-Agent">>>>,
     <<<<"User-Agent">>, <<"X-Amz-Checksum-Mode">>>>,
     <<<<"User-Agent">>, <<"*">>>>,
     <<<<"*">>, <<"User-Agent">>>>,
     <<<<>>, <<"User-Agent">>>>}

\* the headers of a response: those checkCacheability reads, those that
\* may carry a checksum, and the field lines of Vary
CacheHeaderValues ==
    [Pragma : PragmaValues, CacheControl : CacheControlValues, Expires : ExpiresValues]
ChecksumHeaderValues ==
    [Server : ServerValues, XAmzChecksumSha256 : AmzValues, XAmzChecksumSha1 : Sha1Values,
     ETag : ETagValues]
Header(c, k) ==
    [Pragma |-> c.Pragma, CacheControl |-> c.CacheControl, Expires |-> c.Expires,
     Server |-> k.Server, XAmzChecksumSha256 |-> k.XAmzChecksumSha256,
     XAmzChecksumSha1 |-> k.XAmzChecksumSha1, ETag |-> k.ETag, Vary |-> <<>>]

PlainCache == [Pragma |-> <<>>, CacheControl |-> <<>>, Expires |-> ""]
PlainChecksum ==
    [Server |-> "nginx", XAmzChecksumSha256 |-> "", XAmzChecksumSha1 |-> "", ETag |-> <<>>]
CacheSamples ==
    {PlainCache,
     [PlainCache EXCEPT !.CacheControl = <<"no-store">>],
     [PlainCache EXCEPT !.CacheControl = <<"max-age=300">>, !.Expires = ExpiresFuture]}
ChecksumSamples ==
    {PlainChecksum,
     [PlainChecksum EXCEPT !.ETag = <<"\"", Hex64, "\"">>],
     [PlainChecksum EXCEPT !.Server = "AmazonS3",
                           !.XAmzChecksumSha256 = "n4bQgYhMfWWaL+qgxVrQFaO/TxsrC4Is0V1sFbDwCgg="]}

PlainHeader == Header(PlainCache, PlainChecksum)
NoStoreHeader == [PlainHeader EXCEPT !.CacheControl = <<"no-store">>]

\* every value of the cache headers with a few checksum headers, and every
\* value of the checksum headers with a few cache headers
Headers ==
    {Header(c, k) : c \in CacheHeaderValues, k \in ChecksumSamples}
        \cup {Header(c, k) : c \in CacheSamples, k \in ChecksumHeaderValues}
VaryHeaders ==
    {[Header(PlainCache, k) EXCEPT !.Vary = v] :
        k \in {PlainChecksum, [PlainChecksum EXCEPT !.ETag = <<"\"", Hex64, "\"">>]},
        v \in VaryValues}
CacheHeaders == {Header(c, PlainChecksum) : c \in CacheHeaderValues}
SampleHeaders == {Header(c, PlainChecksum) : c \in CacheSamples}

\* the body of a response: the bytes sent, or the release the API describes
NoBody == [bytes |-> <<>>, json |-> FALSE, Assets |-> <<>>]
Bodies == {[bytes |-> b, json |-> FALSE, Assets |-> <<>>] : b \in {<<"b1">>, <<"b1", "b2">>}}
AssetLists ==
    {<<>>,
     <<[Name |-> "a+b.tgz", Digest |-> <<"sha256:", "dd">>]>>,
     <<[Name |-> "a+b.tgz", Digest |-> <<>>]>>,
     <<[Name |-> "a%2Bb.tgz", Digest |-> <<"sha256:", "ee">>]>>,
     <<[Name |-> "a+b.tgz", Digest |-> <<"sha512:", "ff">>]>>,
     <<[Name |-> "c.tgz", Digest |-> <<"sha256:", "cc">>],
       [Name |-> "a+b.tgz", Digest |-> <<"sha256:", "dd">>]>>}
Releases ==
    {[bytes |-> <<"{">>, json |-> TRUE, Assets |-> a] : a \in AssetLists}
        \cup {[bytes |-> <<"<html>">>, json |-> FALSE, Assets |-> <<>>]}

FailedDo ==
    [status |-> 0, Header |-> PlainHeader, ContentLength |-> -1, body |-> NoBody, readErr |-> FALSE]

APIResponses ==
    {FailedDo} \cup
    [status : Statuses \ {0}, Header : {PlainHeader, NoStoreHeader},
     ContentLength : {-1}, body : Releases, readErr : {FALSE}]
HEADResponses ==
    {FailedDo} \cup
    [status : {200}, Header : Headers \cup VaryHeaders, ContentLength : {-1}, body : {NoBody},
     readErr : {FALSE}]
        \cup
    [status : Statuses \ {0, 200}, Header : {PlainHeader, NoStoreHeader},
     ContentLength : {-1}, body : {NoBody}, readErr : {FALSE}]
\* net/http never delivers more body bytes than the declared Content-Length,
\* and reading fewer ends with an error (unexpected EOF)
Transferable(r) ==
    r.ContentLength >= 0 =>
        /\ Len(r.body.bytes) <= r.ContentLength
        /\ Len(r.body.bytes) < r.ContentLength => r.readErr

GETResponses ==
    {FailedDo} \cup
    [status : {200}, Header : CacheHeaders \cup VaryHeaders, ContentLength : {-1}, body : Bodies,
     readErr : {FALSE}]
        \cup
    {r \in [status : {200}, Header : SampleHeaders, ContentLength : {-1, 1, 2},
            body : Bodies, readErr : BOOLEAN] : Transferable(r)}
        \cup
    [status : Statuses \ {0, 200}, Header : {PlainHeader, NoStoreHeader},
     ContentLength : {-1}, body : Bodies, readErr : {FALSE}]

\* ------------------------------------------------------- header functions
\* a string is a sequence of tokens; its length is the sum of theirs
TokLen(tok) ==
    CASE tok \in {Hex64, Hex64Upper, NonHex64} -> 64
      [] tok = "\"" -> 1
      [] tok = "W/" -> 2
      [] OTHER -> 6
RECURSIVE StrLen(_)
StrLen(s) == IF s = <<>> THEN 0 ELSE TokLen(Head(s)) + StrLen(Tail(s))

\* strings.Trim(s, `"`)
RECURSIVE TrimLeft(_)
TrimLeft(s) == IF s # <<>> /\ Head(s) = "\"" THEN TrimLeft(Tail(s)) ELSE s
RECURSIVE TrimRight(_)
TrimRight(s) ==
    IF s # <<>> /\ s[Len(s)] = "\"" THEN TrimRight(SubSeq(s, 1, Len(s) - 1)) ELSE s
Trim(s) == TrimRight(TrimLeft(s))

isHexString(s) == s # <<>> /\ \A i \in DOMAIN s : s[i] \in {Hex64, Hex64Upper, "abc123"}

decodeBase64ToHex(b64) ==
    IF b64 = "n4bQgYhMfWWaL+qgxVrQFaO/TxsrC4Is0V1sFbDwCgg="
    THEN [err |-> FALSE, hex |-> <<Hex64>>]
    ELSE [err |-> TRUE, hex |-> <<>>]

\* hex.EncodeToString(sha256 of the bytes read)
Sum256Hex(bytes) == <<"sha256(">> \o bytes \o <<")">>

ToLower(tok) ==
    CASE tok = "No-Cache" -> "no-cache"
      [] tok = "User-Agent" -> "user-agent"
      [] tok = "Accept-Encoding" -> "accept-encoding"
      [] tok = "X-Amz-Checksum-Mode" -> "x-amz-checksum-mode"
      [] OTHER -> tok

MaxAgeOfShortAsZero(tok) ==
    IF tok \in {"max-age=0", "max-age=300", "max-age=3600", "max-age=86400"} THEN 0 ELSE -1

MaxAgeOf(tok) ==
    CASE tok = "max-age=0" -> 0
      [] tok = "max-age=300" -> 300
      [] tok = "max-age=3600" -> 3600
      [] tok = "max-age=86400" -> 86400
      [] OTHER -> -1
SMaxAgeOfAbsent(tok) == -1

SMaxAgeOf(tok) ==
    CASE tok = "s-maxage=0" -> 0
      [] tok = "s-maxage=60" -> 60
      [] OTHER -> -1
DeltaSeconds(S) == IF S \ {-1} = {} THEN -1 ELSE CHOOSE x \in S \ {-1} : TRUE

\* cacheobject.ParseResponseCacheControl: the directives of a header value
ParseResponseCacheControl(cc) ==
    [err |-> Contains(cc, "max-age=abc"),
     NoStore |-> Contains(cc, "no-store"),
     NoCachePresent |-> Contains(cc, "no-cache"),
     MaxAge |-> DeltaSeconds({MaxAgeOf(cc[i]) : i \in DOMAIN cc}),
     SMaxAge |-> DeltaSeconds({SMaxAgeOf(cc[i]) : i \in DOMAIN cc})]

\* http.ParseTime, as seconds relative to time.Now()
ParseTime(e) ==
    [err |-> e \notin {ExpiresPast, ExpiresFuture},
     t |-> IF e = ExpiresPast THEN -1 ELSE 1]

checkCacheabilityMaxAgeOnly(h) ==
    LET d == ParseResponseCacheControl(h.CacheControl)
        expiresTime == ParseTime(h.Expires)
    IN  IF Contains([i \in DOMAIN h.Pragma |-> ToLower(h.Pragma[i])], "no-cache")
        THEN "Pragma: no-cache"
        ELSE IF h.CacheControl # <<>> /\ d.err THEN "nil"
        ELSE IF h.CacheControl # <<>> /\ d.NoStore THEN "Cache-Control: no-store"
        ELSE IF h.CacheControl # <<>> /\ d.NoCachePresent THEN "Cache-Control: no-cache"
        ELSE IF h.CacheControl # <<>> /\ d.MaxAge = 0
        THEN "Cache-Control: max-age=0 (immediately stale)"
        ELSE IF h.Expires # "" /\ ~expiresTime.err /\ expiresTime.t < 0
        THEN "Expires header indicates already expired content"
        ELSE "nil"

\* the error checkCacheability returns for the headers h ("nil": safe to pin)
checkCacheability(h) ==
    LET d == ParseResponseCacheControl(h.CacheControl)
        effectiveMaxAge == IF d.SMaxAge >= 0 THEN d.SMaxAge ELSE d.MaxAge
        expiresTime == ParseTime(h.Expires)
    IN  IF Contains([i \in DOMAIN h.Pragma |-> ToLower(h.Pragma[i])], "no-cache")
        THEN "Pragma: no-cache"
        ELSE IF h.CacheControl # <<>> /\ d.err THEN "nil"
        ELSE IF h.CacheControl # <<>> /\ d.NoStore THEN "Cache-Control: no-store"
        ELSE IF h.CacheControl # <<>> /\ d.NoCachePresent THEN "Cache-Control: no-cache"
        ELSE IF h.CacheControl # <<>> /\ effectiveMaxAge = 0
        THEN "Cache-Control: max-age=0 (immediately stale)"
        ELSE IF h.Expires # "" /\ ~expiresTime.err /\ expiresTime.t < 0
        THEN "Expires header indicates already expired content"
        ELSE "nil"

\* ------------------------------------------------------- header capture
\* version.UserAgent() of a development build
UserAgent == "container-source-policy/dev buildkit/unknown"
\* req.Header of the HEAD request and of the GET request
ReqHeadersHEAD == ("User-Agent" :> UserAgent) @@ ("X-Amz-Checksum-Mode" :> "ENABLED")
ReqHeadersGET == ("User-Agent" :> UserAgent)

\* strings.TrimSpace of one field name of the Vary list
TrimSpace(tok) ==
    CASE tok = " Accept-Encoding" -> "Accept-Encoding"
      [] tok = " User-Agent" -> "User-Agent"
      [] tok = " " -> ""
      [] OTHER -> tok

\* http.Header.Get looks the name up in its canonical form
CanonicalMIMEHeaderKey(name) == IF name = "user-agent" THEN "User-Agent" ELSE name
HeaderGet(h, name) ==
    IF CanonicalMIMEHeaderKey(name) \in DOMAIN h THEN h[CanonicalMIMEHeaderKey(name)] ELSE ""

\* the loop of extractVaryHeaders over the names of the Vary list
RECURSIVE VaryLoop(_, _, _)
VaryLoop(reqHeaders, names, hs) ==
    IF names = <<>> THEN hs
    ELSE LET headerName == TrimSpace(Head(names))
             headerValue == HeaderGet(reqHeaders, headerName)
             next == IF headerName = "" \/ headerValue = "" THEN hs
                     ELSE (ToLower(headerName) :> headerValue) @@ hs
         IN  VaryLoop(reqHeaders, Tail(names), next)

EmptyMap == [nil |-> FALSE, map |-> <<>>]

\* http.Header.Get on a response: the first field line kept under the key,
\* the empty value when there is none
FirstValue(fieldLines) == IF fieldLines = <<>> THEN <<>> ELSE fieldLines[1]

extractVaryHeaders(reqHeaders, respHeaders) ==
    LET varyHeader == FirstValue(respHeaders.Vary)
    IN  IF varyHeader = <<>> THEN EmptyMap
        ELSE IF Len(varyHeader) = 1 /\ TrimSpace(varyHeader[1]) = "*" THEN EmptyMap
        ELSE [nil |-> FALSE, map |-> VaryLoop(reqHeaders, varyHeader, <<>>)]

\* the Headers of the ChecksumResult a strategy returns with the checksum o
\* for the response r to its request
ResultHeaders(o, reqHeaders, r) ==
    IF o.err = "nil" THEN extractVaryHeaders(reqHeaders, r.Header) ELSE NilMap

\* ------------------------------------------------------------ strategies
\* each returns [checksum, err] for the response r that its request received
extractS3ChecksumOrETag(r) ==
    LET decoded == decodeBase64ToHex(r.Header.XAmzChecksumSha256)
        etag == Trim(r.Header.ETag)
    IN  IF r.Header.XAmzChecksumSha256 # "" /\ ~decoded.err
        THEN [checksum |-> <<"sha256:">> \o decoded.hex, err |-> "nil"]
        ELSE IF etag # <<>>
        THEN [checksum |-> <<"sha256:">> \o etag, err |-> "nil"]
        ELSE [checksum |-> <<>>, err |-> "no SHA-256 checksum found in S3 headers"]

extractS3Checksum(r) ==
    LET decoded == decodeBase64ToHex(r.Header.XAmzChecksumSha256)
    IN  IF r.Header.XAmzChecksumSha256 # "" /\ ~decoded.err
        THEN [checksum |-> <<"sha256:">> \o decoded.hex, err |-> "nil"]
        ELSE [checksum |-> <<>>, err |-> "no SHA-256 checksum found in S3 headers"]

getChecksumFromHEADUnchecked(r) ==
    LET etag == Trim(r.Header.ETag)
    IN  IF r.status = 0 THEN [checksum |-> <<>>, err |-> "Do failed"]
        ELSE IF r.status \in {401, 403} THEN [checksum |-> <<>>, err |-> AuthError(r.status)]
        ELSE IF r.status # 200 THEN [checksum |-> <<>>, err |-> RequestFailed("HEAD", r.status)]
        ELSE IF r.Header.Server = "AmazonS3" THEN extractS3Checksum(r)
        ELSE IF StrLen(etag) = 64 /\ isHexString(etag)
        THEN [checksum |-> <<"sha256:">> \o etag, err |-> "nil"]
        ELSE [checksum |-> <<>>, err |-> "no usable checksum found in headers"]

getChecksumFromHEADWithHeaders(r) ==
    LET etag == Trim(r.Header.ETag)
    IN  IF r.status = 0 THEN [checksum |-> <<>>, err |-> "Do failed"]
        ELSE IF r.status \in {401, 403} THEN [checksum |-> <<>>, err |-> AuthError(r.status)]
        ELSE IF r.status # 200 THEN [checksum |-> <<>>, err |-> RequestFailed("HEAD", r.status)]
        ELSE IF checkCacheability(r.Header) # "nil"
        THEN [checksum |-> <<>>, err |-> checkCacheability(r.Header)]
        ELSE IF r.Header.Server = "AmazonS3" THEN extractS3Checksum(r)
        ELSE IF StrLen(etag) = 64 /\ isHexString(etag)
        THEN [checksum |-> <<"sha256:">> \o etag, err |-> "nil"]
        ELSE [checksum |-> <<>>, err |-> "no usable checksum found in headers"]

\* the API request is sent only for a path of six parts or more
SendsAPIRequest(u) == Len(u.Path) >= 6

RECURSIVE FindAsset(_, _)
FindAsset(assets, assetName) ==
    IF assets = <<>>
    THEN [checksum |-> <<>>, err |-> "asset not found or has no digest"]
    ELSE IF Head(assets).Name = assetName /\ Head(assets).Digest # <<>>
    THEN [checksum |-> Head(assets).Digest, err |-> "nil"]
    ELSE FindAsset(Tail(assets), assetName)

IsAuthStatusAPIWith404(status) == status \in {401, 403, 404}

\* the statuses the API strategy answers with an AuthError: 404 is not one
IsAuthStatusAPI(status) == status \in {401, 403}

\* pathParts[5:] is the asset name: one segment in the URLs modelled
getChecksumFromGitHubRelease(u, r) ==
    IF ~SendsAPIRequest(u)
    THEN [checksum |-> <<>>, err |-> "invalid GitHub release URL format"]
    ELSE IF r.status = 0 THEN [checksum |-> <<>>, err |-> "Do failed"]
    ELSE IF IsAuthStatusAPI(r.status) THEN [checksum |-> <<>>, err |-> AuthError(r.status)]
    ELSE IF r.status # 200 THEN [checksum |-> <<>>, err |-> RequestFailed("API", r.status)]
    ELSE IF ~r.body.json
    THEN [checksum |-> <<>>, err |-> "failed to decode GitHub API response"]
    ELSE FindAsset(r.body.Assets, PathUnescape(u.Path[6]))

\* fmt.Errorf("content length mismatch: server declared %d bytes but sent %d")
ContentLengthMismatch(declared, n) ==
    CASE declared = 2 /\ n = 1 -> "content length mismatch: server declared 2 bytes but sent 1"
      [] declared = 1 /\ n = 2 -> "content length mismatch: server declared 1 bytes but sent 2"
      [] declared = 3 /\ n = 1 -> "content length mismatch: server declared 3 bytes but sent 1"
      [] declared = 3 /\ n = 2 -> "content length mismatch: server declared 3 bytes but sent 2"
      [] OTHER -> "content length mismatch"

computeChecksumNoLengthCheck(r) ==
    IF r.status = 0 THEN [checksum |-> <<>>, err |-> "Do failed"]
    ELSE IF r.status \in {401, 403} THEN [checksum |-> <<>>, err |-> AuthError(r.status)]
    ELSE IF r.status # 200 THEN [checksum |-> <<>>, err |-> RequestFailed("GET", r.status)]
    ELSE IF checkCacheability(r.Header) # "nil"
    THEN [checksum |-> <<>>, err |-> checkCacheability(r.Header)]
    ELSE IF r.readErr THEN [checksum |-> <<>>, err |-> "failed to read response body"]
    ELSE [checksum |-> <<"sha256:">> \o Sum256Hex(r.body.bytes), err |-> "nil"]

computeChecksumWithHeaders(r) ==
    LET n == Len(r.body.bytes)
    IN  IF r.status = 0 THEN [checksum |-> <<>>, err |-> "Do failed"]
        ELSE IF r.status \in {401, 403} THEN [checksum |-> <<>>, err |-> AuthError(r.status)]
        ELSE IF r.status # 200 THEN [checksum |-> <<>>, err |-> RequestFailed("GET", r.status)]
        ELSE IF checkCacheability(r.Header) # "nil"
        THEN [checksum |-> <<>>, err |-> checkCacheability(r.Header)]
        ELSE IF r.ContentLength >= 0 /\ n # r.ContentLength
        THEN [checksum |-> <<>>, err |-> ContentLengthMismatch(r.ContentLength, n)]
        ELSE IF r.readErr THEN [checksum |-> <<>>, err |-> "failed to read response body"]
        ELSE [checksum |-> <<"sha256:">> \o Sum256Hex(r.body.bytes), err |-> "nil"]

\* ------------------------------------------------ GetChecksumWithHeaders
IsGitHubRelease(u) == u.Host = "github.com" /\ IsReleasePath(u.Path)

\* which errors of a strategy are returned at once instead of falling through
PropagateAPIAll(err) == err # "nil"

PropagateAPI(err) == IsAuthError(err)

PropagateHEADAuthOnly(err) == IsAuthError(err)

PropagateHEAD(err) == IsAuthError(err) \/ IsVolatileContentError(err)

SucceededNever(o) == FALSE

Succeeded(o) == o.err = "nil" /\ o.checksum # <<>>
ReturnOf(o) ==
    IF o.err = "nil"
    THEN [nil |-> FALSE, Checksum |-> o.checksum, err |-> "nil"]
    ELSE [nil |-> TRUE, Checksum |-> <<>>, err |-> o.err]

\* GetChecksumWithHeaders(ctx, rawURL) is called
InitHTTP ==
    /\ preferDHI = FALSE
    /\ PipelineInit
    /\ ExtIdle
    /\ rawURL \in RawURLs
    /\ hpc = "called"
    /\ resp = NoResp
    /\ out = NoOut
    /\ headers = NilMap
    /\ trace = <<>>
    /\ hret = NoRet

\* url.Parse and the choice of the first strategy
ParseURL ==
    /\ hpc = "called"
    /\ IF ~rawURL.valid
       THEN /\ hpc' = "returned"
            /\ hret' = [nil |-> TRUE, Checksum |-> <<>>, err |-> "invalid URL"]
       ELSE /\ hpc' = IF IsGitHubRelease(rawURL) THEN "github" ELSE "head"
            /\ UNCHANGED hret
    /\ UNCHANGED <<rawURL, resp, out, headers, trace, pipelineVars, extVars>>

\* c.getChecksumFromGitHubRelease(ctx, parsedURL), its request answered by r
TryGitHubRelease(r) ==
    /\ hpc = "github"
    /\ r \in IF SendsAPIRequest(rawURL) THEN APIResponses ELSE {NoResp}
    /\ LET o == getChecksumFromGitHubRelease(rawURL, r)
       IN  /\ out' = o
           /\ trace' = Append(trace, [strategy |-> "API", sent |-> SendsAPIRequest(rawURL),
                                      err |-> o.err])
    /\ resp' = r
    /\ headers' = NilMap
    /\ hpc' = "githubDone"
    /\ UNCHANGED <<rawURL, hret, pipelineVars, extVars>>

\* the result of the API strategy is returned, or HEAD is tried next
AfterGitHubRelease ==
    /\ hpc = "githubDone"
    /\ IF Succeeded(out) \/ PropagateAPI(out.err)
       THEN /\ hpc' = "returned"
            /\ hret' = ReturnOf(out)
            /\ headers' = IF Succeeded(out) THEN EmptyMap ELSE NilMap
            /\ UNCHANGED <<resp, out>>
       ELSE /\ hpc' = "head"
            /\ resp' = NoResp
            /\ out' = NoOut
            /\ headers' = NilMap
            /\ UNCHANGED hret
    /\ UNCHANGED <<rawURL, trace, pipelineVars, extVars>>

\* c.getChecksumFromHEADWithHeaders(ctx, rawURL), its request answered by r
TryHEAD(r) ==
    /\ hpc = "head"
    /\ LET o == getChecksumFromHEADWithHeaders(r)
       IN  /\ out' = o
           /\ headers' = ResultHeaders(o, ReqHeadersHEAD, r)
           /\ trace' = Append(trace, [strategy |-> "HEAD", sent |-> TRUE, err |-> o.err])
    /\ resp' = r
    /\ hpc' = "headDone"
    /\ UNCHANGED <<rawURL, hret, pipelineVars, extVars>>

\* the result of the HEAD strategy is returned, or the body is downloaded
AfterHEAD ==
    /\ hpc = "headDone"
    /\ IF Succeeded(out) \/ PropagateHEAD(out.err)
       THEN /\ hpc' = "returned"
            /\ hret' = ReturnOf(out)
            /\ UNCHANGED <<resp, out, headers>>
       ELSE /\ hpc' = "get"
            /\ resp' = NoResp
            /\ out' = NoOut
            /\ headers' = NilMap
            /\ UNCHANGED hret
    /\ UNCHANGED <<rawURL, trace, pipelineVars, extVars>>

\* return c.computeChecksumWithHeaders(ctx, rawURL), its request answered by r
FallbackGET(r) ==
    /\ hpc = "get"
    /\ LET o == computeChecksumWithHeaders(r)
       IN  /\ out' = o
           /\ headers' = ResultHeaders(o, ReqHeadersGET, r)
           /\ trace' = Append(trace, [strategy |-> "GET", sent |-> TRUE, err |-> o.err])
           /\ hret' = ReturnOf(o)
    /\ resp' = r
    /\ hpc' = "returned"
    /\ UNCHANGED <<rawURL, pipelineVars, extVars>>

NextHTTP ==
    \/ ParseURL
    \/ \E r \in APIResponses \cup {NoResp} : TryGitHubRelease(r)
    \/ AfterGitHubRelease
    \/ \E r \in HEADResponses : TryHEAD(r)
    \/ AfterHEAD
    \/ \E r \in GETResponses : FallbackGET(r)

SpecHTTP == InitHTTP /\ [][NextHTTP]_vars

\* ============================================ the git commit resolver
\* GetCommitChecksum(ctx, "https://h/r.git#v1"): the answer of
\* git ls-remote <remote> v1 v1^{} is a sequence of lines, a line the sequence
\* of its fields (strings.Fields)
MaxLines == 3         \* lines of an answer of git ls-remote

ShaTag == "1111111111111111111111111111111111111111"
ShaCommit == "54d56cab54d56cab54d56cab54d56cab54d56cab"
ShaUpper == "54D56CAB54D56CAB54D56CAB54D56CAB54D56CAB"
ShaNonHex == "zzzzzzzzzzzzzzzzzzzzzzzzzzzzzzzzzzzzzzzz"
ShaShort == "54d56ca"
LsRemoteLines ==
    {<<>>, <<ShaCommit>>,
     <<ShaTag, "refs/tags/v1">>, <<ShaCommit, "refs/tags/v1^{}">>,
     <<ShaCommit, "refs/heads/v1">>, <<ShaUpper, "refs/heads/v1">>,
     <<ShaShort, "refs/tags/v1^{}">>, <<ShaNonHex, "refs/tags/v1">>,
     <<Hex64, "refs/tags/v1^{}">>}
\* what git.Run returns: an error, or the output
LsRemoteResults ==
    {[err |-> TRUE, output |-> <<>>]}
        \cup {[err |-> FALSE, output |-> o] : o \in SeqsUpTo(LsRemoteLines, MaxLines)}

\* strings.TrimSpace(output): the blank lines at both ends are dropped
RECURSIVE TrimSpaceLines(_)
TrimSpaceLines(o) ==
    IF o # <<>> /\ Head(o) = <<>> THEN TrimSpaceLines(Tail(o))
    ELSE IF o # <<>> /\ o[Len(o)] = <<>> THEN TrimSpaceLines(SubSeq(o, 1, Len(o) - 1))
    ELSE o

\* strings.HasSuffix(refName, "^{}")
HasSuffixDeref(refName) == refName = "refs/tags/v1^{}"

\* len(commitSHA)
ShaLen(sha) ==
    CASE sha \in {ShaTag, ShaCommit, ShaUpper, ShaNonHex} -> 40
      [] sha = Hex64 -> 64
      [] sha = ShaShort -> 7
      [] OTHER -> 0
\* hex.DecodeString(commitSHA) returns no error
hexDecodes(sha) == sha \in {ShaTag, ShaCommit, ShaUpper, Hex64}

ScanLineNoDeref(sha, fields) ==
    IF Len(fields) < 2 THEN [commitSHA |-> sha, break |-> FALSE]
    ELSE IF sha = "" THEN [commitSHA |-> fields[1], break |-> FALSE]
    ELSE [commitSHA |-> sha, break |-> FALSE]

\* one iteration of the loop over the lines: the new commitSHA, and whether
\* the loop is left
ScanLine(sha, fields) ==
    IF Len(fields) < 2 THEN [commitSHA |-> sha, break |-> FALSE]
    ELSE IF HasSuffixDeref(fields[2]) THEN [commitSHA |-> fields[1], break |-> TRUE]
    ELSE IF sha = "" THEN [commitSHA |-> fields[1], break |-> FALSE]
    ELSE [commitSHA |-> sha, break |-> FALSE]

\* the checks on the selected hash, and the value returned
CheckSHA(sha) ==
    IF sha = "" THEN [sha |-> "", err |-> "unexpected git ls-remote output format"]
    ELSE IF ShaLen(sha) # 40
    THEN [sha |-> "", err |-> IF ShaLen(sha) = 64 THEN "invalid commit SHA length: 64"
                                ELSE "invalid commit SHA length: 7"]
    ELSE IF ~hexDecodes(sha)
    THEN [sha |-> "", err |-> "invalid commit SHA format: not hexadecimal"]
    ELSE [sha |-> sha, err |-> "nil"]

notGitVars == <<pipelineVars, httpVars, imgVars, runVars, sinkVars>>

\* GetCommitChecksum(ctx, rawURL) is called
InitGit ==
    /\ preferDHI = FALSE
    /\ PipelineInit
    /\ ResolverIdle
    /\ ImgIdle
    /\ RunIdle
    /\ SinkIdle
    /\ gpc = "called"
    /\ lines = <<>>
    /\ lineIdx = 0
    /\ commitSHA = ""
    /\ gret = [sha |-> "", err |-> "none"]

\* git.Run(ctx, "ls-remote", remote, ref, ref^{}) returned r
RunLsRemote(r) ==
    /\ gpc = "called"
    /\ IF r.err
       THEN /\ gpc' = "returned"
            /\ gret' = [sha |-> "", err |-> "git ls-remote failed"]
            /\ UNCHANGED <<lines, lineIdx>>
       ELSE IF TrimSpaceLines(r.output) = <<>>
       THEN /\ gpc' = "returned"
            /\ gret' = [sha |-> "", err |-> "no commit found for ref v1"]
            /\ UNCHANGED <<lines, lineIdx>>
       ELSE /\ gpc' = "scanning"
            /\ lines' = TrimSpaceLines(r.output)
            /\ lineIdx' = 1
            /\ UNCHANGED gret
    /\ UNCHANGED <<commitSHA, notGitVars>>

\* one iteration of: for _, line := range lines
ScanNextLine ==
    /\ gpc = "scanning"
    /\ lineIdx <= Len(lines)
    /\ LET n == ScanLine(commitSHA, lines[lineIdx])
       IN  /\ commitSHA' = n.commitSHA
           /\ IF n.break
              THEN gpc' = "selected" /\ UNCHANGED lineIdx
              ELSE lineIdx' = lineIdx + 1 /\ UNCHANGED gpc
    /\ UNCHANGED <<lines, gret, notGitVars>>

\* the range over the lines is exhausted
ScanDone ==
    /\ gpc = "scanning"
    /\ lineIdx > Len(lines)
    /\ gpc' = "selected"
    /\ UNCHANGED <<lines, lineIdx, commitSHA, gret, notGitVars>>

\* the selected hash is checked and returned
ReturnSHA ==
    /\ gpc = "selected"
    /\ gret' = CheckSHA(commitSHA)
    /\ gpc' = "returned"
    /\ UNCHANGED <<lines, lineIdx, commitSHA, notGitVars>>

NextGit ==
    \/ \E r \in LsRemoteResults : RunLsRemote(r)
    \/ ScanNextLine
    \/ ScanDone
    \/ ReturnSHA

SpecGit == InitGit /\ [][NextGit]_vars

\* ============================================ the image task (processImage)
\* A named reference is its domain, its path as tokens and its tag; NilRef is
\* the nil reference.Named.
NilRef == [domain |-> "", path |-> <<>>, tag |-> ""]
RefAlpine == [domain |-> "docker.io", path |-> <<"library/", "alpine">>, tag |-> "3.18"]
RefUserApp == [domain |-> "docker.io", path |-> <<"user/", "app">>, tag |-> "1"]
RefGhcr == [domain |-> "ghcr.io", path |-> <<"library/", "alpine">>, tag |-> ""]
TaskRefs == {RefAlpine, RefUserApp, RefGhcr}

\* ecrpublic.CanMapToECRPublic
CanMapToECRPublic(ref) ==
    IF ref.domain # "docker.io" THEN FALSE
    ELSE Len(ref.path) > 0 /\ ref.path[1] = "library/"

\* ecrpublic.MapToECRPublic: (mapped, err)
MapToECRPublic(ref) ==
    IF ~CanMapToECRPublic(ref) THEN [ref |-> NilRef, err |-> "ErrNotEligible"]
    ELSE [ref |-> [domain |-> "public.ecr.aws", path |-> <<"docker/">> \o ref.path,
                   tag |-> ref.tag],
          err |-> "nil"]

\* what the mapper of the other preferred registry (dhi.CanMapToDHI,
\* dhi.MapToDHI, dhi.ErrNotEligible) can answer for a reference: any value
\* of the types tryPreferredRegistry takes them with
DHIMapResults(ref) ==
    {[ref |-> [domain |-> "dhi.io", path |-> ref.path, tag |-> ref.tag], err |-> "nil"],
     [ref |-> NilRef, err |-> "nil"],
     [ref |-> NilRef, err |-> "ErrNotEligible"],
     [ref |-> NilRef, err |-> "map failed"]}

\* what client.GetDigest can return: a digest, or an error, which
\* registry.IsNotFoundOrAuthError recognises or not
GetDigestResults ==
    {[digest |-> "sha256:aa", err |-> "nil", notFoundOrAuth |-> FALSE],
     [digest |-> "", err |-> "manifest unknown", notFoundOrAuth |-> TRUE],
     [digest |-> "", err |-> "unauthorized", notFoundOrAuth |-> TRUE],
     [digest |-> "", err |-> "timeout", notFoundOrAuth |-> FALSE]}

IsNotFoundOrAuthError(r) == r.notFoundOrAuth

tryPreferredRegistryStrict(canMap, mapped, notEligibleErr, r) ==
    IF ~canMap THEN [ref |-> NilRef, digest |-> "", err |-> "nil", asked |-> FALSE]
    ELSE IF mapped.err # "nil"
    THEN [ref |-> NilRef, digest |-> "",
          err |-> IF mapped.err = notEligibleErr THEN "nil" ELSE mapped.err,
          asked |-> FALSE]
    ELSE IF mapped.ref = NilRef
    THEN [ref |-> NilRef, digest |-> "", err |-> "nil", asked |-> FALSE]
    ELSE IF r.err = "nil"
    THEN [ref |-> mapped.ref, digest |-> r.digest, err |-> "nil", asked |-> TRUE]
    ELSE [ref |-> NilRef, digest |-> "", err |-> "failed to check image", asked |-> TRUE]

\* tryPreferredRegistry with canMap(ref), mapFn(ref) and the answer r of
\* GetDigest(mapped) should it be called: (reference, digest, err), and
\* whether GetDigest was called
tryPreferredRegistry(canMap, mapped, notEligibleErr, r) ==
    IF ~canMap THEN [ref |-> NilRef, digest |-> "", err |-> "nil", asked |-> FALSE]
    ELSE IF mapped.err # "nil"
    THEN [ref |-> NilRef, digest |-> "",
          err |-> IF mapped.err = notEligibleErr THEN "nil" ELSE mapped.err,
          asked |-> FALSE]
    ELSE IF mapped.ref = NilRef
    THEN [ref |-> NilRef, digest |-> "", err |-> "nil", asked |-> FALSE]
    ELSE IF r.err = "nil"
    THEN [ref |-> mapped.ref, digest |-> r.digest, err |-> "nil", asked |-> TRUE]
    ELSE IF IsNotFoundOrAuthError(r)
    THEN [ref |-> NilRef, digest |-> "", err |-> "nil", asked |-> TRUE]
    ELSE [ref |-> NilRef, digest |-> "", err |-> "failed to check image", asked |-> TRUE]

notImgVars == <<pipelineVars, httpVars, gitVars, runVars, sinkVars>>

NoImageRet == [returned |-> FALSE, err |-> "nil", added |-> FALSE, pinned |-> NilRef, digest |-> ""]

InitImage ==
    /\ preferDHI \in BOOLEAN
    /\ PipelineInit
    /\ ResolverIdle
    /\ GitIdle
    /\ RunIdle
    /\ SinkIdle
    /\ ipc = "start"
    /\ taskRef \in TaskRefs
    /\ preferECRPublic \in BOOLEAN
    /\ ibar = "none"
    /\ tried = <<>>
    /\ pinnedRef = NilRef
    /\ digestStr = ""
    /\ iret = NoImageRet

\* the task returns the error err: bar.Abort(true), then the deferred
\* bar.SetTotal(0, true), which an aborted bar ignores
ImageFails(err) ==
    /\ ipc' = "returned"
    /\ ibar' = "aborted"
    /\ iret' = [NoImageRet EXCEPT !.returned = TRUE, !.err = err]

\* one call of tryPreferredRegistry by processImage, answering t
ImagePreferred(t, mappedRef, r, err, next) ==
    /\ tried' = IF t.asked THEN Append(tried, [ref |-> mappedRef, res |-> r]) ELSE tried
    /\ IF t.err # "nil"
       THEN /\ ImageFails(err)
            /\ UNCHANGED <<pinnedRef, digestStr>>
       ELSE /\ pinnedRef' = t.ref
            /\ digestStr' = t.digest
            /\ ipc' = next
            /\ UNCHANGED <<ibar, iret>>

\* progress.AddSpinner and the deferred bar.SetTotal(0, true)
StartImage ==
    /\ ipc = "start"
    /\ ibar' = "active"
    /\ ipc' = "dhi"
    /\ UNCHANGED <<taskRef, preferECRPublic, tried, pinnedRef, digestStr, iret>>
    /\ UNCHANGED notImgVars

TryDHI(canMap, mapped, r) ==
    /\ ipc = "dhi"
    /\ IF preferDHI
       THEN ImagePreferred(tryPreferredRegistry(canMap, mapped, "ErrNotEligible", r),
                           mapped.ref, r, "failed to resolve DHI image", "ecr")
       ELSE /\ ipc' = "ecr"
            /\ UNCHANGED <<ibar, tried, pinnedRef, digestStr, iret>>
    /\ UNCHANGED <<taskRef, preferECRPublic>>
    /\ UNCHANGED notImgVars

TryECRPublic(r) ==
    /\ ipc = "ecr"
    /\ IF pinnedRef = NilRef /\ preferECRPublic
       THEN ImagePreferred(tryPreferredRegistry(CanMapToECRPublic(taskRef),
                                                MapToECRPublic(taskRef), "ErrNotEligible", r),
                           MapToECRPublic(taskRef).ref, r,
                           "failed to resolve ECR Public image", "orig")
       ELSE /\ ipc' = "orig"
            /\ UNCHANGED <<ibar, tried, pinnedRef, digestStr, iret>>
    /\ UNCHANGED <<taskRef, preferECRPublic>>
    /\ UNCHANGED notImgVars

\* the fallback to the reference as written
GetOriginal(r) ==
    /\ ipc = "orig"
    /\ IF pinnedRef = NilRef
       THEN /\ tried' = Append(tried, [ref |-> taskRef, res |-> r])
            /\ IF r.err # "nil"
               THEN /\ ImageFails("failed to get digest")
                    /\ UNCHANGED <<pinnedRef, digestStr>>
               ELSE /\ digestStr' = r.digest
                    /\ pinnedRef' = taskRef
                    /\ ipc' = "pin"
                    /\ UNCHANGED <<ibar, iret>>
       ELSE /\ ipc' = "pin"
            /\ UNCHANGED <<ibar, tried, pinnedRef, digestStr, iret>>
    /\ UNCHANGED <<taskRef, preferECRPublic>>
    /\ UNCHANGED notImgVars

\* digest.Parse and reference.WithDigest of a digest GetDigest returned,
\* results.addPin, return nil and the deferred bar.SetTotal(0, true)
PinImage ==
    /\ ipc = "pin"
    /\ ipc' = "returned"
    /\ ibar' = "completed"
    /\ iret' = [returned |-> TRUE, err |-> "nil", added |-> TRUE,
                pinned |-> pinnedRef, digest |-> digestStr]
    /\ UNCHANGED <<taskRef, preferECRPublic, tried, pinnedRef, digestStr>>
    /\ UNCHANGED notImgVars

NextImage ==
    \/ StartImage
    \/ \E canMap \in BOOLEAN, r \in GetDigestResults :
           \E mapped \in DHIMapResults(taskRef) : TryDHI(canMap, mapped, r)
    \/ \E r \in GetDigestResults : TryECRPublic(r)
    \/ \E r \in GetDigestResults : GetOriginal(r)
    \/ PinImage

SpecImage == InitImage /\ [][NextImage]_vars

\* ======================= the GET strategy, byte by byte, with a progress sink
\* What the io.Writer that c.progressFactory returns does on Write(p):
\* "bar" is the barWriter of processHTTP, which counts len(p) and returns
\* (len(p), nil); "failing" returns an error; "short" returns (0, nil);
\* "none" is a client without a factory.
Sinks == {"none", "bar", "failing", "short"}

\* (n, err) of Write(p) of the sink for len(p) = n
SinkWrite(s, n) ==
    CASE s = "bar"     -> [n |-> n, err |-> "nil"]
      [] s = "failing" -> [n |-> 0, err |-> "sink failed"]
      [] s = "short"   -> [n |-> 0, err |-> "nil"]

\* Write(p) of dst for len(p) = n: the hash alone, or io.MultiWriter(hash,
\* progressWriter), which stops at the first writer that fails or writes short
DstWrite(s, n) ==
    IF s = "none" THEN [n |-> n, err |-> "nil"]
    ELSE LET w == SinkWrite(s, n)
         IN  IF w.err # "nil" THEN w
             ELSE IF w.n # n THEN [n |-> w.n, err |-> "short write"]
             ELSE [n |-> n, err |-> "nil"]

InitSink ==
    /\ preferDHI = FALSE
    /\ PipelineInit
    /\ ResolverIdle
    /\ GitIdle
    /\ ImgIdle
    /\ RunIdle
    /\ kpc = "called"
    /\ sink \in Sinks
    /\ kresp = NoResp
    /\ remaining = <<>>
    /\ hashed = <<>>
    /\ nCopied = 0
    /\ reported = <<>>
    /\ kret = [checksum |-> <<>>, headers |-> NilMap, err |-> "none"]

notSinkVars == <<pipelineVars, httpVars, gitVars, imgVars, runVars>>

\* computeChecksumWithHeaders returns the error err
SinkFails(err) ==
    /\ kpc' = "returned"
    /\ kret' = [checksum |-> <<>>, headers |-> NilMap, err |-> err]

\* io.Copy has returned (n, err): the length check, the checksum and the
\* headers
AfterCopy(n, err, bytes) ==
    IF kresp.ContentLength >= 0 /\ n # kresp.ContentLength
    THEN SinkFails(ContentLengthMismatch(kresp.ContentLength, n))
    ELSE IF err # "nil"
    THEN SinkFails("failed to read response body")
    ELSE /\ kpc' = "returned"
         /\ kret' = [checksum |-> <<"sha256:">> \o Sum256Hex(bytes),
                     headers |-> extractVaryHeaders(ReqHeadersGET, kresp.Header),
                     err |-> "nil"]

\* the GET request is answered by r; with a 200 answer that passes the
\* cache check the writer chain is built and io.Copy starts
SendGET(r) ==
    /\ kpc = "called"
    /\ kresp' = r
    /\ IF r.status = 0 THEN SinkFails("Do failed") /\ UNCHANGED remaining
       ELSE IF r.status \in {401, 403} THEN SinkFails(AuthError(r.status)) /\ UNCHANGED remaining
       ELSE IF r.status # 200
       THEN SinkFails(RequestFailed("GET", r.status)) /\ UNCHANGED remaining
       ELSE IF checkCacheability(r.Header) # "nil"
       THEN SinkFails(checkCacheability(r.Header)) /\ UNCHANGED remaining
       ELSE /\ kpc' = "copy"
            /\ remaining' = r.body.bytes
            /\ UNCHANGED kret
    /\ UNCHANGED <<sink, hashed, nCopied, reported>>
    /\ UNCHANGED notSinkVars

\* io.Copy reads the next byte of the body and writes it to dst
CopyChunk ==
    /\ kpc = "copy"
    /\ remaining # <<>>
    /\ LET w == DstWrite(sink, 1)
       IN  /\ hashed' = Append(hashed, Head(remaining))
           /\ remaining' = Tail(remaining)
           /\ nCopied' = nCopied + w.n
           /\ reported' = IF sink # "none" /\ SinkWrite(sink, 1).n > 0
                          THEN Append(reported, nCopied + SinkWrite(sink, 1).n)
                          ELSE reported
           /\ IF w.err # "nil" \/ w.n # 1
              THEN AfterCopy(nCopied + w.n, IF w.err # "nil" THEN w.err ELSE "short write",
                             Append(hashed, Head(remaining)))
              ELSE UNCHANGED <<kpc, kret>>
    /\ UNCHANGED <<sink, kresp>>
    /\ UNCHANGED notSinkVars

\* the body ends: EOF, or the error of a body cut short
CopyEnd ==
    /\ kpc = "copy"
    /\ remaining = <<>>
    /\ AfterCopy(nCopied, IF kresp.readErr THEN "unexpected EOF" ELSE "nil", hashed)
    /\ UNCHANGED <<sink, kresp, remaining, hashed, nCopied, reported>>
    /\ UNCHANGED notSinkVars

NextSink ==
    \/ \E r \in GETResponses : SendGET(r)
    \/ CopyChunk
    \/ CopyEnd

SpecSink == InitSink /\ [][NextSink]_vars

\* =================================================================== claims
Returned == pc \in {"Completed", "Aborted"}
Rules == ret.policy.Rules
Dispatched == DOMAIN tstate

SchemeOf(kind) ==
    CASE kind = "image" -> "docker-image" [] kind = "http" -> "http" [] kind = "git" -> "git"

\* the rule a resolved task must give
RuleOf(i) ==
    LET t == TaskAt(i)
    IN  [scheme |-> SchemeOf(t.kind), identifier |-> t.lit, pinned |-> Pinned(t.kind, t.lit)]

RulesFor(i) ==
    {k \in DOMAIN Rules : Rules[k].scheme = SchemeOf(TaskAt(i).kind)
                          /\ Rules[k].identifier = TaskAt(i).lit}

TaskFatal(i) == tstate[i] \in {"fatal", "canceled"}
TaskSkipped(i) == tstate[i] \in {"auth", "volatile"}
TaskResolved(i) == tstate[i] = "ok"

OneRulePerResolvedTask ==
    /\ \A i \in Dispatched : TaskResolved(i) => RulesFor(i) # {}
                                 /\ \A k \in RulesFor(i) : Rules[k] = RuleOf(i)
    /\ \A i \in Dispatched : TaskResolved(i) => Cardinality(RulesFor(i)) = 1
    /\ \A i \in Dispatched : TaskSkipped(i) => RulesFor(i) = {}
    /\ Len(Rules) = Cardinality({i \in Dispatched : TaskResolved(i)})

OutcomePolicy ==
    /\ ret.err = NoErr
    /\ ~ret.policy.nil
    /\ \A i \in Dispatched : ~TaskFatal(i)
    /\ OneRulePerResolvedTask

OutcomeTaskError ==
    /\ ret.err # NoErr
    /\ ret.policy = NilPolicy
    /\ \E i \in Dispatched : TaskFatal(i)

OutcomeEarlyError ==
    /\ ret.err # NoErr
    /\ ret.policy = NilPolicy
    /\ ret.err.cause \in {"parse", "dhi-auth"}
    /\ Dispatched = {}

\* C1 (as stated): every call of GeneratePolicy ends either with a nil error
\* and a policy of exactly one rule per resolved task, no task having been
\* fatal, or with no policy and an error, at least one task having been fatal.
C1_AsStated == Returned => (OutcomePolicy \/ OutcomeTaskError)

\* C1 (amended): every call of GeneratePolicy ends either with a nil error
\* and a policy of exactly one rule per resolved task and none per skipped
\* task, no task having been fatal, or with no policy and a single error,
\* because a task was fatal or because, before any task was launched, a
\* Dockerfile could not be parsed or the DHI login check failed; a policy is
\* never returned together with an error.
C1_TwoOutcomes ==
    /\ Returned => (OutcomePolicy \/ OutcomeTaskError \/ OutcomeEarlyError)
    /\ ~(ret.err # NoErr /\ ~ret.policy.nil)

C1_Witness ==
    /\ pc = "Completed"
    /\ \E i \in Dispatched : TaskResolved(i)
    /\ \E i \in Dispatched : TaskSkipped(i)
    /\ Len(Rules) >= 1

\* C2: an HTTP task that ends in Auth or Volatile returns nil to the group:
\* the step cancels nothing, records no error and adds no result; siblings
\* are aborted only by a fatal task: with no fatal task the group has no
\* error and its context is cancelled only by the return of g.Wait, and when
\* all tasks end resolved or skipped the run completes with the rule of
\* every resolved task.
C2_SkipStep ==
    \A i \in Dispatched :
        (tstate[i] = "inflight" /\ tstate'[i] \in {"auth", "volatile"}) =>
            /\ cancelled' = cancelled
            /\ gErr' = gErr
            /\ errLog' = errLog
            /\ <<pinResults', httpResults', gitResults'>> = <<pinResults, httpResults, gitResults>>

C2_SkipInv ==
    /\ (\E i \in Dispatched : tstate[i] = "canceled") => (\E j \in Dispatched : tstate[j] = "fatal")
    /\ (\A i \in Dispatched : ~TaskFatal(i)) =>
            /\ gErr = NoErr
            /\ cancelled => pc \in {"Waited", "Completed"}
    /\ (Returned /\ Dispatched # {} /\ \A i \in Dispatched : ~TaskFatal(i)) =>
            /\ pc = "Completed" /\ ret.err = NoErr
            /\ \A j \in Dispatched : TaskResolved(j) => \E k \in DOMAIN Rules : Rules[k] = RuleOf(j)

C2_SoftSkip == []C2_SkipInv /\ [][C2_SkipStep]_vars

C2_Witness ==
    /\ pc = "Completed"
    /\ \E i, j \in Dispatched :
          /\ tstate[i] = "volatile"
          /\ tstate[j] = "ok" /\ TaskAt(j).kind = "http"
          /\ \E k \in DOMAIN Rules : Rules[k] = RuleOf(j)

\* C3: the first error a task returns cancels the shared context and is the
\* error GeneratePolicy returns, after every task has returned; errors
\* returned later are discarded.  While no task has returned an error the
\* group has none, and its context is cancelled only by the return of g.Wait.
C3_FirstError ==
    /\ errLog # <<>> => cancelled /\ gErr = Head(errLog)
    /\ errLog = <<>> =>
           /\ gErr = NoErr
           /\ cancelled => pc \in {"Waited", "Completed"}
    /\ (pc = "Aborted" /\ errLog # <<>>) => ret.err = Head(errLog) /\ AllReturned

C3_Witness ==
    /\ pc = "Aborted"
    /\ Len(errLog) >= 2
    /\ errLog[2].cause = "fatal"
    /\ ret.err = errLog[1]

\* C4 (as stated): once the shared context is cancelled, a task that has not
\* begun makes no resolver call and sends no network request.
C4_AsStated ==
    [][\A i \in Dispatched :
          (cancelled /\ tstate[i] = "started") => (i \notin called' /\ i \notin sent')]_vars

NoResultOf(i) ==
    \A r \in Range(pinResults) \cup Range(httpResults) \cup Range(gitResults) : r.index # i

C4_LateStep ==
    \A i \in Dispatched :
        (cancelled /\ tstate[i] = "started") =>
            /\ i \notin sent'
            /\ tstate'[i] \in {"started", "canceled"}
            /\ tstate'[i] = "canceled" =>
                   /\ i \in called'
                   /\ gErr' = gErr
                   /\ <<pinResults', httpResults', gitResults'>> = <<pinResults, httpResults, gitResults>>

C4_LateInv ==
    \A i \in Dispatched :
        (i \in called /\ i \notin sent) =>
            /\ tstate[i] = "canceled"
            /\ NoResultOf(i)
            /\ gErr # NoErr /\ gErr.task # i

\* C4 (amended): once the shared context is cancelled by a fatal error, a
\* task that has not begun is still run and calls its resolver with the
\* cancelled context, but it sends no network request and adds no result,
\* and the error it returns is not the one the run reports.
C4_LateTask == []C4_LateInv /\ [][C4_LateStep]_vars

C4_Witness ==
    /\ Returned
    /\ \E i \in Dispatched : i \in called /\ i \notin sent /\ tstate[i] = "canceled"

RECURSIVE ExpectedRules(_)
ExpectedRules(tasks) ==
    IF tasks = <<>> THEN <<>>
    ELSE (IF TaskResolved(Head(tasks).index) THEN <<RuleOf(Head(tasks).index)>> ELSE <<>>)
             \o ExpectedRules(Tail(tasks))

\* C5: with no fatal task, the rules of the returned policy are a function
\* of the task lists and of the tasks' outcomes alone: the resolved image
\* tasks in list order, then the HTTP ones, then the git ones, whatever the
\* order in which the results arrived.
C5_OrderIndependent ==
    pc = "Completed" =>
        Rules = ExpectedRules(imageTasks) \o ExpectedRules(httpTasks) \o ExpectedRules(gitTasks)

C5_Witness ==
    /\ pc = "Completed"
    /\ \E k, l \in DOMAIN arrival :
          /\ k < l /\ arrival[k] > arrival[l]
          /\ TaskAt(arrival[k]).kind = "http" /\ TaskAt(arrival[l]).kind = "http"

IndexOfRule(r) ==
    CHOOSE i \in TaskIndices : SchemeOf(TaskAt(i).kind) = r.scheme /\ TaskAt(i).lit = r.identifier

\* C6 (as stated): the rules of the returned policy appear in ascending order
\* of their tasks' global order index, across the three kinds and across
\* the Dockerfiles.
C6_AsStated ==
    pc = "Completed" =>
        \A k, l \in DOMAIN Rules : k < l => IndexOfRule(Rules[k]) < IndexOfRule(Rules[l])

Lits(tasks) == {tasks[k].lit : k \in DOMAIN tasks}
NoDup(tasks) == \A k, l \in DOMAIN tasks : k # l => tasks[k].lit # tasks[l].lit
WrittenOf(kind) == {w[2] : w \in {x \in written : x[1] = kind}}
CarriesDigest(lit) == \E i \in DOMAIN lit : lit[i] \in {"@sha256:", "@sha512:"}
\* the resource a URL denotes: "./" path segments removed
Canon(lit) == SelectSeq(lit, LAMBDA tok : tok # "./")

\* C7: each task list holds exactly one task per distinct literal of its
\* kind written in the Dockerfiles read so far, images carrying a digest
\* excepted; literals that differ give different tasks.
C7_OneTaskPerLiteral ==
    /\ NoDup(imageTasks) /\ NoDup(httpTasks) /\ NoDup(gitTasks)
    /\ Lits(imageTasks) = {l \in WrittenOf("image") : ~CarriesDigest(l)}
    /\ Lits(httpTasks) = WrittenOf("http")
    /\ Lits(gitTasks) = WrittenOf("git")

C7_Witness ==
    /\ nFiles = 2
    /\ {UrlFile, UrlFileDot} \subseteq Lits(httpTasks)
    /\ Canon(UrlFile) = Canon(UrlFileDot)
    /\ <<"http", UrlFile>> \in dupLits
    /\ Len(httpTasks) = 2

NumTasks == Len(imageTasks) + Len(httpTasks) + Len(gitTasks)
TaskRecs == Range(imageTasks) \cup Range(httpTasks) \cup Range(gitTasks)
Increasing(tasks) == \A k, l \in DOMAIN tasks : k < l => tasks[k].index < tasks[l].index
IsPrefix(s, t) == Len(s) <= Len(t) /\ SubSeq(t, 1, Len(s)) = s

C8_IndexInv ==
    /\ {t.index : t \in TaskRecs} = 0 .. (NumTasks - 1)
    /\ Cardinality(TaskRecs) = NumTasks
    /\ orderIndex = NumTasks
    /\ Increasing(imageTasks) /\ Increasing(httpTasks) /\ Increasing(gitTasks)

C8_IndexStep ==
    /\ IsPrefix(imageTasks, imageTasks') /\ IsPrefix(httpTasks, httpTasks')
    /\ IsPrefix(gitTasks, gitTasks')
    /\ orderIndex' - orderIndex =
           Cardinality({w \in written' \ written : ~(w[1] = "image" /\ CarriesDigest(w[2]))})
    /\ \A t \in TaskRecs' \ TaskRecs : t.index >= orderIndex

\* C8: the N tasks carry exactly the indices 0..N-1, each once over the three
\* lists, increasing along each list; a collect call only appends tasks,
\* leaves the indices given before unchanged, and consumes one index per
\* literal met for the first time, none for a duplicate.
C8_FirstSeenOrder == []C8_IndexInv /\ [][C8_IndexStep]_vars

C8_Witness ==
    /\ nFiles = 2
    /\ NumTasks = 3
    /\ <<"http", UrlFile>> \in dupLits
    /\ \E h \in Range(httpTasks), g \in Range(imageTasks) : h.index < g.index

\* C9: an image reference carrying a digest never becomes a task: no image
\* task, no resolver call, no result and no rule is for such a literal, and
\* it consumes no order index.
C9_NoDigestedTask ==
    /\ \A t \in Range(imageTasks) : ~CarriesDigest(t.lit)
    /\ orderIndex = NumTasks
    /\ \A i \in called : ~(TaskAt(i).kind = "image" /\ CarriesDigest(TaskAt(i).lit))
    /\ \A r \in Range(pinResults) : ~CarriesDigest(r.lit)
    /\ \A k \in DOMAIN Rules : Rules[k].scheme = "docker-image" => ~CarriesDigest(Rules[k].identifier)

C9_Witness ==
    /\ pc = "Completed"
    /\ nFiles = 2
    /\ ImgSha512 \in seenImages
    /\ imageTasks = <<[index |-> 1, lit |-> ImgAlpine]>>
    /\ Len(Rules) = 2

\* ---- claims on the HTTP resolver
Last(s) == s[Len(s)]
IsStop(err) == IsAuthError(err) \/ IsVolatileContentError(err)
StrategyReturned == hpc \in {"githubDone", "headDone"} \/ (hpc = "returned" /\ trace # <<>>)

\* what the response held in resp makes the strategy that received it yield
YieldsAuth == resp # NoResp /\ resp.status \in {401, 403}
YieldsVolatile ==
    /\ resp # NoResp /\ resp.status = 200
    /\ Last(trace).strategy \in {"HEAD", "GET"}
    /\ \/ Contains(resp.Header.Pragma, "no-cache")
       \/ /\ ~Contains(resp.Header.CacheControl, "max-age=abc")
          /\ \/ Contains(resp.Header.CacheControl, "no-store")
             \/ Contains(resp.Header.CacheControl, "no-cache")

C10_StopInv ==
    /\ StrategyReturned /\ YieldsAuth => IsAuthError(Last(trace).err)
    /\ StrategyReturned /\ YieldsVolatile => IsVolatileContentError(Last(trace).err)
    /\ \A k \in DOMAIN trace :
           IsStop(trace[k].err) =>
               /\ k = Len(trace)
               /\ hpc \in {"githubDone", "headDone", "returned"}
               /\ hpc = "returned" => hret.nil /\ hret.err = trace[k].err
    /\ \A k, l \in DOMAIN trace :
           k < l /\ trace[k].strategy = "HEAD" /\ IsStop(trace[k].err)
               => trace[l].strategy # "GET"

C10_StopStep ==
    \A k \in DOMAIN trace :
        IsStop(trace[k].err) =>
            /\ trace' = trace
            /\ hpc' = "returned"
            /\ hret'.nil /\ hret'.err = trace[k].err

\* C10: once a strategy of GetChecksumWithHeaders yields Auth (a 401 or 403
\* answer to the API, HEAD or GET request) or Volatile (the cache headers of a
\* 200 answer to HEAD or GET), the next step returns that error and no other
\* strategy is tried: no request follows it, and a HEAD that yielded Auth or
\* Volatile is never followed by a GET.
C10_StopsAtAuthOrVolatile == []C10_StopInv /\ [][C10_StopStep]_vars

\* a release URL whose API request failed and whose HEAD answer, although it
\* carries a usable ETag, is marked no-store: Volatile is returned after HEAD
C10_Witness ==
    /\ hpc = "returned"
    /\ rawURL = UrlRelease
    /\ Len(trace) = 2
    /\ trace[1] = [strategy |-> "API", sent |-> TRUE, err |-> "GitHub API request failed: 500 Internal Server Error"]
    /\ trace[2] = [strategy |-> "HEAD", sent |-> TRUE, err |-> "Cache-Control: no-store"]
    /\ resp.status = 200
    /\ resp.Header.ETag = <<"\"", Hex64, "\"">>
    /\ hret = [nil |-> TRUE, Checksum |-> <<>>, err |-> "Cache-Control: no-store"]

\* ---- C11
\* the failures of the API strategy and of the HEAD strategy that the claim lists
UnescapedAsset == "a+b.tgz"
HasDigestFor(assets, name) ==
    \E i \in DOMAIN assets : assets[i].Name = name /\ assets[i].Digest # <<>>
PlainFailureAPI ==
    /\ hpc = "githubDone"
    /\ \/ resp = NoResp
       \/ resp # NoResp /\ resp.status \notin {200, 401, 403}
       \/ resp # NoResp /\ resp.status = 200 /\ ~resp.body.json
       \/ resp # NoResp /\ resp.status = 200 /\ resp.body.json
              /\ ~HasDigestFor(resp.body.Assets, UnescapedAsset)
PlainFailureHEAD ==
    /\ hpc = "headDone"
    /\ \/ resp.status \notin {200, 401, 403}
       \/ out.err \in {"no usable checksum found in headers",
                       "no SHA-256 checksum found in S3 headers"}

C11_FallStep ==
    /\ PlainFailureAPI => hpc' = "head" /\ hret' = NoRet /\ trace' = trace
    /\ PlainFailureHEAD => hpc' = "get" /\ hret' = NoRet /\ trace' = trace
    /\ hpc = "head" =>
           /\ trace' = Append(trace, [strategy |-> "HEAD", sent |-> TRUE, err |-> out'.err])
           /\ resp' \in HEADResponses
    /\ hpc = "get" =>
           /\ trace' = Append(trace, [strategy |-> "GET", sent |-> TRUE, err |-> out'.err])
           /\ resp' \in GETResponses

C11_LastInv ==
    hpc = "returned" /\ trace # <<>> =>
        /\ hret.err = Last(trace).err
        /\ hret.err = out.err
        /\ hret.Checksum = out.checksum
        /\ hret.nil = (out.err # "nil")
        /\ \A k \in 1 .. (Len(trace) - 1) :
               trace[k].err # "nil" /\ ~IsStop(trace[k].err)

\* C11: a failure of the API strategy or of the HEAD strategy that is neither
\* Auth nor Volatile does not return: HEAD is tried after the API strategy and
\* GET after HEAD, and what GetChecksumWithHeaders returns is what the last
\* strategy tried returned.
C11_FallsThrough == []C11_LastInv /\ [][C11_FallStep]_vars

\* API without a digest for the asset, HEAD without a usable header, GET hashed
C11_Witness ==
    /\ hpc = "returned"
    /\ rawURL = UrlRelease
    /\ Len(trace) = 3
    /\ trace[1] = [strategy |-> "API", sent |-> TRUE, err |-> "asset not found or has no digest"]
    /\ trace[2] = [strategy |-> "HEAD", sent |-> TRUE, err |-> "no usable checksum found in headers"]
    /\ trace[3] = [strategy |-> "GET", sent |-> TRUE, err |-> "nil"]
    /\ hret = [nil |-> FALSE, Checksum |-> <<"sha256:", "sha256(", "b1", ")">>, err |-> "nil"]

\* ---- C12
API404 == "GitHub API request failed: 404 Not Found"
FirstIsAPI404 == trace # <<>> /\ trace[1] = [strategy |-> "API", sent |-> TRUE, err |-> API404]
Fatal(r) == r.nil /\ ~IsAuthError(r.err) /\ ~IsVolatileContentError(r.err)

\* C12 as stated: a 404 answer of the API strategy is fatal for the reference
C12_AsStated == hpc = "returned" /\ FirstIsAPI404 => Fatal(hret)

C12_NotAuthInv ==
    /\ hpc = "githubDone" /\ resp # NoResp /\ resp.status = 404 =>
           FirstIsAPI404 /\ Len(trace) = 1 /\ out.err = API404 /\ ~IsAuthError(out.err)
    /\ hpc = "returned" /\ FirstIsAPI404 =>
           /\ Len(trace) >= 2
           /\ trace[2].strategy = "HEAD"
           /\ hret.err = Last(trace).err
           /\ hret.err # API404

C12_NotAuthStep ==
    hpc = "githubDone" /\ resp # NoResp /\ resp.status = 404 =>
        hpc' = "head" /\ hret' = NoRet

\* C12 (amended): a 404 answer of the API strategy is a plain failure of that
\* strategy, never an AuthError: the strategy returns a not-found error, the
\* HEAD strategy is tried next, and the resolution returns what the later
\* strategies return (which may be a checksum, Auth, Volatile or an error).
C12_NotFoundNotAuth == []C12_NotAuthInv /\ [][C12_NotAuthStep]_vars

\* the API answered 404 and the HEAD strategy then found a checksum
C12_Witness ==
    /\ hpc = "returned"
    /\ FirstIsAPI404
    /\ Len(trace) = 2
    /\ trace[2] = [strategy |-> "HEAD", sent |-> TRUE, err |-> "nil"]
    /\ hret = [nil |-> FALSE, Checksum |-> <<"sha256:", Hex64>>, err |-> "nil"]

\* ---- C13
LastIsHeadOrGet == StrategyReturned /\ Last(trace).strategy \in {"HEAD", "GET"}

\* C13: a checksum of the HEAD strategy or of the full-body fallback is only
\* accepted from a 200 response whose Pragma, Cache-Control and Expires headers
\* passed checkCacheability; a response the check classifies as Volatile yields
\* that error and no checksum, even when it carries a usable checksum header.
C13_CheckedBeforeAccept ==
    LastIsHeadOrGet =>
        /\ out.err = "nil" =>
               /\ resp.status = 200
               /\ checkCacheability(resp.Header) = "nil"
               /\ resp.Header.CacheControl # <<"no-store">>
        /\ resp.status = 200 /\ checkCacheability(resp.Header) # "nil" =>
               /\ out = [checksum |-> <<>>, err |-> checkCacheability(resp.Header)]
               /\ hpc = "returned" => hret.nil /\ hret.Checksum = <<>>
        /\ hpc = "returned" /\ ~hret.nil =>
               resp.status = 200 /\ checkCacheability(resp.Header) = "nil"

\* an S3 answer with cache headers that pass the check: its checksum is returned
C13_Witness ==
    /\ hpc = "returned"
    /\ trace # <<>>
    /\ Last(trace) = [strategy |-> "HEAD", sent |-> TRUE, err |-> "nil"]
    /\ resp.Header.Server = "AmazonS3"
    /\ resp.Header.CacheControl = <<"max-age=300">>
    /\ resp.Header.Expires = ExpiresFuture
    /\ hret = [nil |-> FALSE, Checksum |-> <<"sha256:", Hex64>>, err |-> "nil"]

\* ---- C14
Rank(strategy) ==
    CASE strategy = "API" -> 1
      [] strategy = "HEAD" -> 2
      [] OTHER -> 3
ReleasePattern(u) ==
    /\ u.valid /\ u.Host = "github.com"
    /\ \E i \in 1 .. (Len(u.Path) - 2) : u.Path[i] = "releases" /\ u.Path[i + 1] = "download"
Requests == SelectSeq(trace, LAMBDA e : e.sent)

C14_OrderInv ==
    /\ \A k, l \in DOMAIN trace : k < l => Rank(trace[k].strategy) < Rank(trace[l].strategy)
    /\ \A k \in DOMAIN trace : trace[k].strategy = "API" => ReleasePattern(rawURL)
    /\ \A k \in DOMAIN trace :
           trace[k].strategy \in {"API", "HEAD"} /\ trace[k].err = "nil" =>
               /\ k = Len(trace)
               /\ \A l \in DOMAIN trace : trace[l].strategy # "GET"
               /\ out.checksum # <<>>
               /\ hpc = "returned" => hret = [nil |-> FALSE, Checksum |-> out.checksum, err |-> "nil"]
    /\ hpc \in {"headDone", "get"} => \E k \in DOMAIN trace : trace[k].strategy = "HEAD"

C14_OrderStep ==
    /\ Len(Requests') <= Len(Requests) + 1
    /\ trace # <<>> /\ Last(trace).err = "nil" => trace' = trace /\ hpc' = "returned"

\* C14: the requests of one resolution are sent in the order API, HEAD, GET,
\* each at most once, the API request only for a github.com release-download
\* URL; a digest found by the API strategy or a checksum found by the HEAD
\* strategy is returned and no GET is ever sent.
C14_FixedOrder == []C14_OrderInv /\ [][C14_OrderStep]_vars

\* the API strategy found the asset's digest: one request, the digest returned
C14_Witness ==
    /\ hpc = "returned"
    /\ rawURL = UrlRelease
    /\ trace = <<[strategy |-> "API", sent |-> TRUE, err |-> "nil"]>>
    /\ Len(resp.body.Assets) = 2
    /\ hret = [nil |-> FALSE, Checksum |-> <<"sha256:", "dd">>, err |-> "nil"]

\* ---- C15
\* a HEAD answer that reached the extraction of the checksum
HeadExtracted ==
    /\ hpc \in {"headDone", "returned"}
    /\ trace # <<>> /\ Last(trace).strategy = "HEAD"
    /\ resp.status = 200
    /\ checkCacheability(resp.Header) = "nil"
AmzSha256 == "n4bQgYhMfWWaL+qgxVrQFaO/TxsrC4Is0V1sFbDwCgg="
\* the ETag values that are 64 hex characters once the quotes are stripped
ETag64Hex == {<<"\"", Hex64, "\"">>, <<Hex64Upper>>}
Stripped(etag) == SelectSeq(etag, LAMBDA tok : tok # "\"")

C15_HeaderInv ==
    HeadExtracted =>
        IF resp.Header.Server = "AmazonS3"
        THEN IF resp.Header.XAmzChecksumSha256 = AmzSha256
             THEN out = [checksum |-> <<"sha256:", Hex64>>, err |-> "nil"]
             ELSE /\ out = [checksum |-> <<>>, err |-> "no SHA-256 checksum found in S3 headers"]
                  /\ hpc = "headDone"
        ELSE IF resp.Header.ETag \in ETag64Hex
             THEN out = [checksum |-> <<"sha256:">> \o Stripped(resp.Header.ETag), err |-> "nil"]
             ELSE /\ out = [checksum |-> <<>>, err |-> "no usable checksum found in headers"]
                  /\ hpc = "headDone"

C15_HeaderStep == HeadExtracted /\ hpc = "headDone" /\ out.err # "nil" => hpc' = "get"

\* C15: from a server that names itself AmazonS3 the HEAD strategy accepts only
\* the X-Amz-Checksum-Sha256 header, base64 decoded and written in hex; with a
\* SHA-1 header or an ETag only it yields no checksum and the GET is tried.
\* From any other server the ETag without its surrounding quotes is accepted
\* exactly when it is 64 hex characters.
C15_HeadChecksum == []C15_HeaderInv /\ [][C15_HeaderStep]_vars

\* an S3 answer with a SHA-1 header and a 64 hex ETag, and no SHA-256 header
C15_Witness ==
    /\ hpc = "headDone"
    /\ resp.status = 200
    /\ resp.Header.Server = "AmazonS3"
    /\ resp.Header.XAmzChecksumSha256 = ""
    /\ resp.Header.XAmzChecksumSha1 # ""
    /\ resp.Header.ETag = <<"\"", Hex64, "\"">>
    /\ out = [checksum |-> <<>>, err |-> "no SHA-256 checksum found in S3 headers"]

\* ---- C16
\* C16 as stated: every checksum GetChecksumWithHeaders returns with a nil
\* error, whichever strategy produced it, begins with the tag sha256:
C16_AsStated == hpc = "returned" /\ ~hret.nil => Head(hret.Checksum) = "sha256:"

\* ---- C17
\* the body of a GET answer was read
BodyRead ==
    /\ hpc = "returned"
    /\ trace # <<>> /\ Last(trace).strategy = "GET"
    /\ resp.status = 200
    /\ checkCacheability(resp.Header) = "nil"
BytesRead == Len(resp.body.bytes)

\* C17: in the full-body fallback a declared Content-Length that differs from
\* the number of bytes read makes the resolution fail with an error that is
\* neither Auth nor Volatile and names both counts, and no checksum is
\* returned; without a declared Content-Length the count is not checked.
C17_LengthChecked ==
    BodyRead =>
        /\ resp.ContentLength >= 0 /\ BytesRead # resp.ContentLength =>
               /\ Fatal(hret)
               /\ hret.Checksum = <<>>
               /\ resp.ContentLength = 2 /\ BytesRead = 1 =>
                      hret.err = "content length mismatch: server declared 2 bytes but sent 1"
        /\ resp.ContentLength = -1 /\ ~resp.readErr =>
               hret = [nil |-> FALSE, err |-> "nil",
                       Checksum |-> <<"sha256:", "sha256(">> \o resp.body.bytes \o <<")">>]
        /\ resp.ContentLength = BytesRead /\ ~resp.readErr => ~hret.nil

\* two bytes declared, one read
C17_Witness ==
    /\ BodyRead
    /\ resp.ContentLength = 2 /\ BytesRead = 1
    /\ hret.nil
    /\ hret.err = "content length mismatch: server declared 2 bytes but sent 1"

\* ---- C18
\* a 200 answer to HEAD or GET: its headers went through checkCacheability
Checked ==
    /\ hpc \in {"headDone", "returned"}
    /\ trace # <<>> /\ Last(trace).strategy \in {"HEAD", "GET"}
    /\ resp.status = 200
PragmaNoCache == \E i \in DOMAIN resp.Header.Pragma : resp.Header.Pragma[i] \in {"no-cache", "No-Cache"}
HasDirective(tok) == \E i \in DOMAIN resp.Header.CacheControl : resp.Header.CacheControl[i] = tok
HasSMaxAge == HasDirective("s-maxage=0") \/ HasDirective("s-maxage=60")
EffectiveMaxAgeZero == HasDirective("s-maxage=0") \/ (~HasSMaxAge /\ HasDirective("max-age=0"))
CacheControlSignal == HasDirective("no-store") \/ HasDirective("no-cache") \/ EffectiveMaxAgeZero
WellFormed == ~HasDirective("max-age=abc")

ScopeOrFreshness == {<<"private">>, <<"max-age=300">>, <<"private", "max-age=3600">>}
NoOtherSignal == ~PragmaNoCache /\ resp.Header.Expires # ExpiresPast

\* C19: Cache-Control: private and a max-age greater than zero are not
\* volatility signals: with max-age=300 or private, max-age=3600 and no other
\* volatile header the check passes, the checksum of a usable header or of
\* the body is returned, and a HEAD without usable header goes on to the GET.
C19_NotVolatile ==
    Checked /\ resp.Header.CacheControl \in ScopeOrFreshness /\ NoOtherSignal =>
        /\ ~IsVolatileContentError(out.err)
        /\ Last(trace).strategy = "GET" /\ ~resp.readErr /\ resp.ContentLength \in {-1, BytesRead} =>
               hret = [nil |-> FALSE, err |-> "nil",
                       Checksum |-> <<"sha256:", "sha256(">> \o resp.body.bytes \o <<")">>]
        /\ Last(trace).strategy = "HEAD" /\ resp.Header.Server # "AmazonS3"
               /\ resp.Header.ETag = <<"\"", Hex64, "\"">> =>
               out = [checksum |-> <<"sha256:", Hex64>>, err |-> "nil"]
        /\ Last(trace).strategy = "HEAD" /\ out.err # "nil" => hpc = "headDone"

\* private, max-age=3600 on the GET answer: the hash of the body is returned
C19_Witness ==
    /\ Checked
    /\ Last(trace).strategy = "GET"
    /\ resp.Header.CacheControl = <<"private", "max-age=3600">>
    /\ hret = [nil |-> FALSE, err |-> "nil", Checksum |-> <<"sha256:", "sha256(", "b1", ")">>]

\* ---- C20
\* C20 as stated: whatever the Cache-Control header, when it is not itself a
\* volatile signal, an Expires header in the past makes the response Volatile
\* and an Expires header that does not parse is ignored
C20_AsStated ==
    Checked /\ ~PragmaNoCache /\ ~CacheControlSignal =>
        /\ resp.Header.Expires = ExpiresPast => IsVolatileContentError(out.err)
        /\ resp.Header.Expires = "tomorrow" => ~IsVolatileContentError(out.err)

AcceptedFromHeadOrGet ==
    /\ hpc = "returned" /\ ~hret.nil
    /\ trace # <<>> /\ Last(trace).strategy \in {"HEAD", "GET"}
\* the lowercased names a list of Vary members holds
NamedIn(list) ==
    {CASE n \in {"User-Agent", "user-agent", " User-Agent"} -> "user-agent"
       [] n \in {"Accept-Encoding", " Accept-Encoding"} -> "accept-encoding"
       [] n \in {"X-Amz-Checksum-Mode", " X-Amz-Checksum-Mode"} -> "x-amz-checksum-mode"
       [] OTHER -> "" : n \in Range(list)}
\* the Vary list of the response: the members of all its Vary field lines, in
\* the order received (RFC 7230, 3.2.2)
RECURSIVE Flatten(_)
Flatten(fieldLines) ==
    IF fieldLines = <<>> THEN <<>> ELSE Head(fieldLines) \o Flatten(Tail(fieldLines))
VaryList == Flatten(resp.Header.Vary)
\* the names the request carried, and their values
SentByRequest ==
    IF Last(trace).strategy = "HEAD" THEN {"user-agent", "x-amz-checksum-mode"} ELSE {"user-agent"}
ValueSent(k) == IF k = "user-agent" THEN UserAgent ELSE "ENABLED"

\* the header map of the result holds what the list of Vary members asks for
CapturedFor(list) ==
    /\ ~headers.nil
    /\ list \in {<<>>, <<"*">>} => DOMAIN headers.map = {}
    /\ list \notin {<<>>, <<"*">>} => DOMAIN headers.map = NamedIn(list) \cap SentByRequest
    /\ \A k \in DOMAIN headers.map : headers.map[k] = ValueSent(k)

\* C22 (as stated): after a checksum accepted from a HEAD or GET response the
\* header map of the result is not nil and holds, for each header named in
\* the Vary list of that response and set on the request, one entry keyed by
\* the lowercased name with the value the request carried, and nothing else;
\* a header named in Vary and not sent has no entry, and Vary: * or no Vary
\* gives the empty map.
C22_AsStated == AcceptedFromHeadOrGet => CapturedFor(VaryList)

\* C22, what the code does: the same with the first Vary field line of the
\* response in the place of its Vary list; the later field lines are not read.
C22_FirstLineCaptured == AcceptedFromHeadOrGet => CapturedFor(FirstValue(resp.Header.Vary))

\* Vary: Accept-Encoding, then Vary: User-Agent, answered to the GET, which
\* sent User-Agent: nothing is captured
C22_SecondLineLost ==
    /\ AcceptedFromHeadOrGet
    /\ Last(trace).strategy = "GET"
    /\ resp.Header.Vary = <<<<"Accept-Encoding">>, <<"User-Agent">>>>
    /\ DOMAIN headers.map = {}

\* ---- claims on the git resolver
\* the lines of the answer with a hash and a ref name, and those of them whose
\* ref name is the dereferenced form of the requested ref
WellFormedLines == {i \in DOMAIN lines : Len(lines[i]) >= 2}
DerefLines == {i \in WellFormedLines : lines[i][2] = "refs/tags/v1^{}"}
RefLines == {i \in WellFormedLines : lines[i][2] \in {"refs/tags/v1", "refs/heads/v1"}}
Min(S) == CHOOSE x \in S : \A y \in S : x <= y
CommitHashes == {ShaTag, ShaCommit}

\* what GetCommitChecksum returns when sel is the hash it must select
ReturnsSelected(sel) ==
    /\ gret.err = "nil" => gret.sha = sel
    /\ sel \in CommitHashes => gret = [sha |-> sel, err |-> "nil"]

\* C23: when the answer holds a line for ref^{} (with or without a line for
\* the ref itself, before or after it) GetCommitChecksum selects the hash of
\* the ^{} line and returns it; when no line ends in ^{} it selects and
\* returns the hash of the first line that has a hash and a ref name.
C23_DerefPreferred ==
    gpc = "returned" /\ WellFormedLines # {} =>
        IF DerefLines # {}
        THEN ReturnsSelected(lines[Min(DerefLines)][1])
        ELSE ReturnsSelected(lines[Min(WellFormedLines)][1])

\* the tag object first, the dereferenced commit second: the commit is returned
C23_Witness ==
    /\ gpc = "returned"
    /\ lines = <<<<ShaTag, "refs/tags/v1">>, <<ShaCommit, "refs/tags/v1^{}">>>>
    /\ gret = [sha |-> ShaCommit, err |-> "nil"]

\* ---- C24
\* C24 as stated: every hash GetCommitChecksum returns is 40 lowercase hex
\* characters, and a selected hash of any other shape gives an error
C24_AsStated ==
    gpc = "returned" =>
        /\ gret.err = "nil" => gret.sha \in CommitHashes
        /\ commitSHA \notin CommitHashes => gret.err # "nil" /\ gret.sha = ""

\* ---- claims on the image task
\* the calls of GetDigest that returned an error
FailedCalls == {k \in DOMAIN tried : tried[k].res.err # "nil"}

\* C25, as stated: every error GetDigest returns while an image task is
\* processed is fatal: the task that received one returns an error and adds
\* no result, and no other reference is asked after it.
C25_AsStated ==
    \A k \in FailedCalls :
        /\ k = Len(tried)
        /\ ipc = "returned" /\ iret.err # "nil" /\ ~iret.added

\* C25, amended: an error of GetDigest on the reference as written is always
\* fatal, and so is an error on the reference of a preferred registry that
\* registry.IsNotFoundOrAuthError does not recognise: the task returns an
\* error, adds nothing and asks no other reference.  An error on the
\* reference of a preferred registry that it recognises is dropped and the
\* resolution goes on with the next candidate; the task never ends as a
\* skip: once returned it has either an error or a result, pinned to the
\* last reference asked, which answered a digest.
C25_FatalUnlessPreferredNotFound ==
    /\ \A k \in FailedCalls :
           tried[k].ref = taskRef \/ ~IsNotFoundOrAuthError(tried[k].res)
               => /\ k = Len(tried)
                  /\ ipc = "returned" /\ iret.err # "nil" /\ ~iret.added
    /\ \A k \in FailedCalls :
           tried[k].ref # taskRef /\ IsNotFoundOrAuthError(tried[k].res)
               => /\ ipc # "returned" \/ k < Len(tried)
                  /\ k < Len(tried) => tried[k + 1].ref # tried[k].ref
    /\ ipc = "returned" =>
           \/ iret.err # "nil" /\ ~iret.added
           \/ /\ iret.err = "nil" /\ iret.added
              /\ tried # <<>>
              /\ tried[Len(tried)].res.err = "nil"
              /\ iret.pinned = tried[Len(tried)].ref
              /\ iret.digest = tried[Len(tried)].res.digest

\* an image is pinned to the reference as written after the reference of a
\* preferred registry answered an error that was dropped
C25_Witness ==
    /\ ipc = "returned" /\ iret.added
    /\ Len(tried) = 2
    /\ tried[1].res.err # "nil"
    /\ tried[1].ref.domain = "public.ecr.aws"
    /\ iret.pinned = taskRef

\* ---- claims on the run
\* the goroutines launched, those that returned, and the tasks of a kind
\* whose result has been added
Launched == DOMAIN tstate
HasReturned(i) == tstate[i] \in {"ok", "auth", "volatile", "fatal", "canceled"}
AddedOf(kind) == {i \in Launched : TaskAt(i).kind = kind /\ tstate[i] \in {"added", "ok"}}
IndicesIn(bucket) == {bucket[k].index : k \in DOMAIN bucket}
OneEntryPerTask(bucket, kind) ==
    /\ Len(bucket) = Cardinality(AddedOf(kind))
    /\ IndicesIn(bucket) = AddedOf(kind)

C26_Inv ==
    /\ OneEntryPerTask(pinResults, "image")
    /\ OneEntryPerTask(httpResults, "http")
    /\ OneEntryPerTask(gitResults, "git")
    /\ \A i \in Launched : tstate[i] = "locked" <=> mu = i
    /\ pc \in {"Waited", "Completed", "Aborted"} =>
           \A i \in Launched : tstate[i] \notin {"adding", "locked", "added"}

C26_Step ==
    resultVars' # resultVars /\ pc = "Dispatched" =>
        /\ mu \in Launched
        /\ tstate[mu] = "locked"
        /\ \A i \in Launched \ {mu} : tstate[i] # "locked"
        /\ mu' = -1
        /\ tstate' = [tstate EXCEPT ![mu] = "added"]

\* C26: a bucket is appended to only by the task that holds the mutex, and by
\* no other at that time; under every interleaving of the adds each bucket
\* holds exactly one entry for each task of its kind that has added its
\* result, none lost and none twice, and when GeneratePolicy has waited for
\* the tasks every task whose resolver succeeded has added its result.
C26_MutexGuardsAppends == []C26_Inv /\ [][C26_Step]_vars

\* two tasks of one kind: the later one has appended its result and released
\* the mutex, its goroutine not yet returned, and the earlier one holds the
\* mutex in its append to the bucket that holds that result
C26_Witness ==
    /\ 0 \in Launched /\ 1 \in Launched
    /\ tstate[1] = "added" /\ tstate[0] = "locked"
    /\ mu = 0
    /\ Len(httpResults) = 1 /\ httpResults[1].index = 1
    /\ local[0] = httpResults

\* ---- C27
C27_Inv ==
    pc \in {"Waited", "Completed", "Aborted"} =>
        /\ \A i \in Launched : HasReturned(i)
        /\ mu = -1

C27_Step ==
    /\ pc \in {"Waited", "Completed", "Aborted"} => tstate' = tstate /\ mu' = mu
    /\ pc \in {"Completed", "Aborted"} => resultVars' = resultVars
    /\ pc' = "Completed" /\ pc # "Completed" /\ Launched # {} =>
           /\ pc = "Waited"
           /\ \A i \in Launched : HasReturned(i)

\* C27: once g.Wait has returned, with or without an error, every goroutine
\* launched has returned and the mutex is free, so buildPolicy runs, and
\* sorts the buckets, while no task is in an add; no task takes a step and no
\* bucket changes after GeneratePolicy has returned.
C27_BuiltAfterAllReturned == []C27_Inv /\ [][C27_Step]_vars

\* a run aborted by a fatal task has returned after its three tasks did: the
\* fatal one, a sibling that added its result and a sibling that was cancelled
C27_Witness ==
    /\ pc = "Aborted"
    /\ gErr.cause = "fatal"
    /\ \E i \in Launched : tstate[i] = "ok" /\ i \in IndicesIn(Bucket(TaskAt(i).kind))
    /\ \E i \in Launched : tstate[i] = "canceled"

\* ---- C28
\* the phase of the run: g.Wait and progress.Wait belong to Dispatched
PhaseOf(p) == IF p = "Waited" THEN "Dispatched" ELSE p
Ended == pc \in {"Completed", "Aborted"}
BarsFinal ==
    /\ \A i \in Launched : HasReturned(i) => i \in DOMAIN bars /\ bars[i] \in {"completed", "aborted"}
    /\ pc = "Waited" => \A i \in DOMAIN bars : bars[i] \in {"completed", "aborted"}

\* C28, as stated: every run goes from Collecting to Dispatched and from
\* there to Completed or Aborted; it ends, and every task that returned has
\* completed or aborted its bar.
C28_AsStated ==
    /\ [][PhaseOf(pc') # PhaseOf(pc) =>
              \/ PhaseOf(pc) = "Collecting" /\ PhaseOf(pc') = "Dispatched"
              \/ PhaseOf(pc) = "Dispatched" /\ pc' \in {"Completed", "Aborted"}]_vars
    /\ []BarsFinal
    /\ <>Ended

C28_PhaseStep ==
    PhaseOf(pc') # PhaseOf(pc) =>
        \/ /\ pc = "Collecting" /\ pc' = "Dispatched"
           /\ ~isEmpty
        \/ /\ pc = "Collecting" /\ pc' = "Completed"
           /\ isEmpty /\ ret' = [policy |-> NewPolicy, err |-> NoErr]
        \/ /\ pc = "Collecting" /\ pc' = "Aborted"
           /\ ret'.err.cause \in {"parse", "dhi-auth"} /\ ret'.policy = NilPolicy
        \/ /\ pc = "Waited" /\ pc' \in {"Completed", "Aborted"}

\* C28, amended: a run starts in Collecting and ends in Completed or Aborted,
\* and does not leave them; it goes through Dispatched when a task was
\* collected, and ends from Collecting without launching a task when none
\* was (Completed, the empty policy) or when a Dockerfile cannot be parsed or
\* the login check of the preferred registry fails (Aborted).  With every
\* goroutine scheduled and every resolver call returning, the run ends; a
\* task that returned has completed or aborted its bar, on each of its exit
\* paths, so no bar is active when progress.Wait is reached.
C28_EndsWithBarsFinal ==
    /\ [][C28_PhaseStep]_vars
    /\ []BarsFinal
    /\ <>Ended

\* an aborted run ended with one bar completed and one aborted
C28_Witness ==
    /\ pc = "Aborted"
    /\ DOMAIN bars = Launched /\ Launched # {}
    /\ \E i \in DOMAIN bars : bars[i] = "completed"
    /\ \E i \in DOMAIN bars : bars[i] = "aborted" /\ tstate[i] \in {"auth", "volatile"}

\* ---- C30
\* C30: the error of a run aborted by its tasks is the first error a task
\* returned, it is an error of that task's resolver and not the error of the
\* cancelled context, and every error of the cancelled context was returned
\* after it.
C30_RootCause ==
    pc = "Aborted" /\ Launched # {} =>
        /\ errLog # <<>>
        /\ ret.err = errLog[1]
        /\ ret.err.cause = "fatal"
        /\ tstate[ret.err.task] = "fatal"
        /\ \A k \in DOMAIN errLog : errLog[k].cause = "canceled" => k > 1

\* a run was aborted by a fatal task, and a sibling returned the error of the
\* cancelled context after it
C30_Witness ==
    /\ pc = "Aborted"
    /\ Len(errLog) >= 2
    /\ errLog[2].cause = "canceled"
    /\ ret.err.cause = "fatal"

\* ---- claims on the progress sink
ErrorClass(err) ==
    IF err = "nil" THEN "none"
    ELSE IF IsAuthError(err) THEN "Auth"
    ELSE IF IsVolatileContentError(err) THEN "Volatile"
    ELSE "Fatal"

\* C29, as stated: for the same response, what the GET strategy returns with
\* a progress sink, whatever the sink, is what it returns without one: the
\* same checksum, the same header map and the same class of error; and the
\* byte count reported to the sink never decreases.
C29_AsStated ==
    /\ kpc = "returned" =>
           LET o == computeChecksumWithHeaders(kresp)
           IN  /\ kret.checksum = o.checksum
               /\ kret.headers = ResultHeaders(o, ReqHeadersGET, kresp)
               /\ ErrorClass(kret.err) = ErrorClass(o.err)
    /\ \A k \in DOMAIN reported : k > 1 => reported[k] >= reported[k - 1]

\* with the sink of processHTTP, or none, the result is that of the strategy
\* without a sink
BarSinkAgrees ==
    sink \in {"none", "bar"} => C29_AsStated /\ (kpc = "returned" => kret.err = computeChecksumWithHeaders(kresp).err)

====
